---- MODULE Spec2Model ----
(***************************************************************************)
(* Console session driver of cml-pyats-validator                           *)
(* (src/src/cml_pyats_validator/console_executor.py).                      *)
(*                                                                         *)
(* Text is a sequence of character codes (ASCII; codes >= 1000 stand for   *)
(* the body of one output segment).  What the spawned ssh process emits is *)
(* a sequence of tokens (a prompt, a marker, a piece of output); a token   *)
(* is rendered to characters where the code handles it as a string.        *)
(***************************************************************************)
EXTENDS Integers, Sequences, FiniteSets, TLC

\* ------------------------------------------------------------------ bounds
\* the longest batch of configuration commands
MaxCmds == 2
\* pager markers and confirmations the device may show for one command
MaxPages == 1
\* confirmations among them
MaxConfirm == 1
\* the longest raw text given to _clean_output by itself
MaxText == 5
\* the longest hostname of a prompt example
MaxHost == 2
\* invocations in flight at once
MaxSessions == 3
\* threads of the event loop's default executor
Workers == 2

\* ------------------------------------------------------- program constants
max_iterations == 50
RetryAttempts == 3

\* ------------------------------------------------------------- characters
LF == 10
CR == 13
SP == 32
ESC == 27
LBRACK == 91

\* str.strip()/str.rstrip() without argument remove these
IsSpace(c) == c \in {9, 10, 11, 12, 13, 28, 29, 30, 31, 32}

RECURSIVE Flatten(_)
Flatten(ss) ==
  IF ss = <<>> THEN <<>>
  ELSE IF Len(ss) = 1 THEN ss[1]
  ELSE LET h == Len(ss) \div 2
       IN Flatten(SubSeq(ss, 1, h)) \o Flatten(SubSeq(ss, h + 1, Len(ss)))

RECURSIVE LStrip(_)
LStrip(s) == IF s # <<>> /\ IsSpace(Head(s)) THEN LStrip(Tail(s)) ELSE s

RECURSIVE RStrip(_)
RStrip(s) ==
  IF s # <<>> /\ IsSpace(s[Len(s)]) THEN RStrip(SubSeq(s, 1, Len(s) - 1)) ELSE s

Strip(s) == LStrip(RStrip(s))

\* Python's `a in b` on strings
Contains(b, a) ==
  \E i \in 1..(Len(b) - Len(a) + 1) : SubSeq(b, i, i + Len(a) - 1) = a

\* ------------------------------------------------------- _clean_output
\* length of the ANSI escape sequence starting at s[1] (0 when none):
\* \x1B(?:[@-Z\\-_]|\[[0-?]*[ -/]*[@-~])
RECURSIVE SkipClass(_, _, _, _)
SkipClass(s, i, lo, hi) ==
  IF i <= Len(s) /\ s[i] >= lo /\ s[i] <= hi THEN SkipClass(s, i + 1, lo, hi) ELSE i

AnsiLen(s) ==
  IF Len(s) < 2 \/ s[1] # ESC THEN 0
  ELSE IF (s[2] >= 64 /\ s[2] <= 90) \/ (s[2] >= 92 /\ s[2] <= 95) THEN 2
  ELSE IF s[2] # LBRACK THEN 0
  ELSE LET p == SkipClass(s, 3, 48, 63)
           q == SkipClass(s, p, 32, 47)
       IN IF q <= Len(s) /\ s[q] >= 64 /\ s[q] <= 126 THEN q ELSE 0

\* the text up to the first escape character is kept as it is
RECURSIVE ansi_escape_sub(_)
ansi_escape_sub(s) ==
  IF \A i \in 1..Len(s) : s[i] # ESC THEN s
  ELSE LET k == CHOOSE i \in 1..Len(s) : s[i] = ESC /\ \A j \in 1..(i - 1) : s[j] # ESC
           t == SubSeq(s, k, Len(s))
           n == AnsiLen(t)
       IN SubSeq(s, 1, k - 1) \o
          (IF n > 0 THEN ansi_escape_sub(SubSeq(t, n + 1, Len(t)))
           ELSE <<ESC>> \o ansi_escape_sub(Tail(t)))

\* output.replace('\r\n', '\n').replace('\r', '\n')
\* every \r becomes \n, and a \n that follows a \r is dropped
NotDropped(c) == c # 0
ReplaceCR(s) ==
  SelectSeq([i \in 1..Len(s) |->
               IF s[i] = CR THEN LF
               ELSE IF s[i] = LF /\ i > 1 /\ s[i - 1] = CR THEN 0
               ELSE s[i]],
            NotDropped)

\* output.split('\n'): always at least one line
\* cur is the start of the first line
SplitLines(s, cur) ==
  LET isLF(i) == s[i] = LF
      pos == SelectSeq([i \in 1..Len(s) |-> i], isLF)
      nth(j) == IF j = 0 THEN 0 ELSE IF j > Len(pos) THEN Len(s) + 1 ELSE pos[j]
  IN [j \in 1..(Len(pos) + 1) |->
        (IF j = 1 THEN cur ELSE <<>>) \o SubSeq(s, nth(j - 1) + 1, nth(j) - 1)]

\* '\n'.join(lines)
RECURSIVE JoinLines(_)
JoinLines(lines) ==
  IF lines = <<>> THEN <<>>
  ELSE IF Len(lines) = 1 THEN lines[1]
  ELSE LET h == Len(lines) \div 2
       IN JoinLines(SubSeq(lines, 1, h)) \o <<LF>> \o JoinLines(SubSeq(lines, h + 1, Len(lines)))

RECURSIVE PopBlankHead(_)
PopBlankHead(lines) ==
  IF lines # <<>> /\ Strip(Head(lines)) = <<>> THEN PopBlankHead(Tail(lines)) ELSE lines

RECURSIVE PopBlankTail(_)
PopBlankTail(lines) ==
  IF lines # <<>> /\ Strip(lines[Len(lines)]) = <<>>
  THEN PopBlankTail(SubSeq(lines, 1, Len(lines) - 1)) ELSE lines

\* variant: the first line is kept whatever it holds
DropEchoNever(lines, cmd) == lines

\* variant: the first line is dropped whatever it holds
DropEchoAlways(lines, cmd) == IF lines # <<>> THEN Tail(lines) ELSE lines

\* if lines and command in lines[0]: lines = lines[1:]
DropEcho(lines, cmd) ==
  IF lines # <<>> /\ Contains(lines[1], cmd) THEN Tail(lines) ELSE lines

clean_output(output, cmd) ==
  LET lines == SplitLines(ReplaceCR(ansi_escape_sub(output)), <<>>)
      kept == PopBlankTail(PopBlankHead(DropEcho(lines, cmd)))
  IN Strip(JoinLines([i \in 1..Len(kept) |-> RStrip(kept[i])]))

\* ------------------------------------------------------------------ tokens
\* what the spawned process emits, one token per recognisable piece of text
Tok(t) == [t |-> t, n |-> 0]
Seg(k) == [t |-> "SEG", n |-> k]
Echo(k) == [t |-> "ECHO", n |-> k]

\* the command of execute_via_console and the commands of a batch, as text
command == <<115, 118>>
CmdText(k) == IF k = 0 THEN command ELSE <<3000 + k>>
CfgTermText == <<99, 116>>
EndText == <<101, 110, 100>>

\* the characters of a token
Render(tk) ==
  CASE tk.t = "PW" -> <<80, 58, SP>>
    [] tk.t = "USER" -> <<85, 58, SP>>
    [] tk.t = "LOGIN" -> <<76, 58, SP>>
    [] tk.t = "CONS" -> <<99, 62>>
    [] tk.t = "CONN" -> <<67, 67, CR, LF>>
    [] tk.t = "ESCM" -> <<69, 67, CR, LF>>
    [] tk.t = "UPROMPT" -> <<82, 62>>
    [] tk.t = "PPROMPT" -> <<82, 35>>
    [] tk.t = "CPROMPT" -> <<82, 40, 99, 41, 35>>
    [] tk.t = "SPROMPT" -> <<82, 40, 105, 41, 35>>
    [] tk.t = "BPROMPT" -> <<35>>
    [] tk.t = "MORE" -> <<45, 77, 45>>
    [] tk.t = "MORE2" -> <<60, 77, 62>>
    [] tk.t = "YESNO" -> <<40, 121, 47, 110, 41>>
    [] tk.t = "CONFIRM" -> <<99, 111, 110, 102>>
    [] tk.t = "ECHO" -> (CASE tk.n = 100 -> CfgTermText
                           [] tk.n = 101 -> EndText
                           [] OTHER -> CmdText(tk.n)) \o <<CR, LF>>
    [] tk.t = "SEG" -> <<1000 + tk.n, CR, LF>>
    [] tk.t = "NOISE" -> <<115, 115, 104, 58, CR, LF>>
    [] OTHER -> <<>>

RenderAll(toks) == Flatten([i \in 1..Len(toks) |-> Render(toks[i])])

\* ---------------------------------------------------------------- patterns
\* the token types a regular expression of the source matches
PatToks(p) ==
  CASE p = "pw" -> {"PW"}
    [] p = "consoles" -> {"CONS"}
    [] p = "conn" -> {"CONN"}
    [] p = "esc" -> {"ESCM"}
    [] p = "user" -> {"USER"}
    [] p = "login" -> {"LOGIN"}
    [] p = "cisco_prompt" -> {"UPROMPT", "PPROMPT", "CPROMPT", "SPROMPT", "CONS"}
    [] p = "simple_prompt" -> {"UPROMPT", "PPROMPT", "CPROMPT", "SPROMPT", "CONS",
                               "BPROMPT"}
    [] p = "any_prompt" -> {"UPROMPT", "PPROMPT", "CPROMPT", "SPROMPT", "CONS"}
    [] p = "config_prompt" -> {"CPROMPT", "SPROMPT"}
    [] p = "exec_prompt" -> {"UPROMPT", "PPROMPT", "CONS"}
    [] p = "hash" -> {"PPROMPT", "CPROMPT", "SPROMPT", "BPROMPT"}
    [] p = "more" -> {"MORE"}
    [] p = "more2" -> {"MORE2"}
    [] p = "yesno" -> {"YESNO"}
    [] p = "confirm" -> {"CONFIRM"}
    [] OTHER -> {}

\* the patterns that end in \s*$ match only at the end of what has been read
Anchored == {"cisco_prompt", "simple_prompt", "any_prompt", "config_prompt", "exec_prompt"}

PatHit(p, buf, i) == buf[i].t \in PatToks(p) /\ (p \in Anchored => i = Len(buf))

Hit(pats, buf, i) == \E k \in 1..Len(pats) : PatHit(pats[k], buf, i)

\* pexpect's searcher: the match that starts first, the first pattern on a tie
MatchPos(pats, buf) ==
  IF \E i \in 1..Len(buf) : Hit(pats, buf, i)
  THEN CHOOSE i \in 1..Len(buf) :
         Hit(pats, buf, i) /\ \A j \in 1..(i - 1) : ~Hit(pats, buf, j)
  ELSE 0

MatchIdx(pats, buf) ==
  LET i == MatchPos(pats, buf)
  IN CHOOSE k \in 1..Len(pats) :
       PatHit(pats[k], buf, i) /\ \A j \in 1..(k - 1) : ~PatHit(pats[j], buf, i)

\* ------------------------------------------------------------------- state
VARIABLES
  op,                 \* "cmd": execute_via_console, "cfg": execute_config_commands
  device_user,        \* TRUE when the caller supplied it
  device_pass,
  device_enable_pass,
  commands,           \* the batch, a sequence of command numbers
  pc,                 \* the driver's position: the expect it is blocked in
  child,              \* "none", "open", "closed"
  buffer,             \* child.buffer: read and not yet matched
  before,             \* child.before
  after,              \* child.after
  attempt,            \* the retry loop's variable
  iteration,          \* the Executing loop's variable
  cmdIdx,             \* the batch loop's position
  output_buffer,
  all_output,
  result,             \* what the caller gets on success
  err,                \* what the caller gets on failure
  wire,               \* emitted by the remote side, not yet read
  dev,                \* the remote side
  emitted,            \* history: everything the remote side emitted
  tmo,                \* history: the expects that timed out
  sentAt,             \* history: how much was emitted and unread at the command line
  sess,               \* concurrent invocations: each one's coroutine, thread and child
  queue,              \* the default executor's work queue
  made,               \* the children spawned so far
  given,              \* the arguments of a function studied by itself
  got,                \* what it returned, call after call
  cml_client,         \* tools/auth.py: the module's client, 0 for None
  environ,            \* os.environ: the caller whose credentials it holds, 0 for none
  issued,             \* the console keys the orchestration API has handed out
  inv,                \* each caller's invocation of the command tool
  keys,               \* history: what the Executing loop sent
  trace               \* history: sends, matches, timeouts, close (outside that loop)

pool == <<sess, queue, made>>
calls == <<given, got>>
tools == <<cml_client, environ, issued, inv>>
inputs == <<op, device_user, device_pass, device_enable_pass, commands, pool, calls,
            tools>>
fixed == <<inputs, sentAt>>
loops == <<attempt, iteration, cmdIdx, keys>>
outs == <<output_buffer, all_output, result>>
vars == <<op, device_user, device_pass, device_enable_pass, commands, pc, child,
          buffer, before, after, attempt, iteration, cmdIdx, output_buffer,
          all_output, result, err, wire, dev, emitted, tmo, sentAt,
          keys, trace, sess, queue, made, given, got, cml_client, environ, issued,
          inv>>

NoErr == [kind |-> "none", cause |-> "none", at |-> "none", buffer |-> <<>>, before |-> <<>>]

Ev(e, x) == [e |-> e, x |-> x, n |-> 0]
Line(x) == [x |-> x, n |-> 0]
CmdLine(k) == [x |-> "cfgcmd", n |-> k]
SendEv(l) == [e |-> "send", x |-> l.x, n |-> l.n]

\* --------------------------------------------------------- the remote side
\* The console server and, behind it, the device's CLI: what they answer to
\* a line the driver sends.  Every answer may also be missing (a hung or
\* slow device) and the connection may close instead.
Dev0 == [mode |-> "off", paging |-> FALSE, seg |-> 0, pages |-> 0, conf |-> 0,
         pager |-> "none", closed |-> FALSE, partial |-> FALSE]

ModePrompt(m) ==
  CASE m = "user" -> <<Tok("UPROMPT")>>
    [] m = "priv" -> <<Tok("PPROMPT")>>
    [] m = "config" -> <<Tok("CPROMPT")>>
    [] m = "sub" -> <<Tok("SPROMPT")>>
    [] m = "login" -> <<Tok("USER")>>
    [] m \in {"pw", "pwonly", "enpw", "sshpw"} -> <<Tok("PW")>>
    [] m = "cons" -> <<Tok("CONS")>>
    [] OTHER -> <<>>

\* the mode a batch command leaves the device in: every other one opens a sub-mode
SubMode(n) == IF n % 2 = 1 THEN "sub" ELSE "config"

DeviceModes == {"login", "pw", "pwonly", "user", "enpw", "priv", "config", "sub"}

\* the end of a page of output: the prompt, a pager marker, a confirmation,
\* or nothing when the output stalls
PageEnds(d) ==
  {[dev |-> [d EXCEPT !.paging = FALSE], out |-> ModePrompt(d.mode)],
   [dev |-> [d EXCEPT !.paging = TRUE], out |-> <<>>]}
  \cup (IF d.pages > 0
        THEN {[dev |-> [d EXCEPT !.paging = TRUE, !.pager = v, !.pages = @ - 1],
               out |-> <<Tok(v)>>] :
                v \in IF d.pager = "none" THEN {"MORE", "MORE2"} ELSE {d.pager}}
        ELSE {})
  \cup (IF d.pages > 0 /\ d.conf < MaxConfirm
        THEN {[dev |-> [d EXCEPT !.paging = TRUE, !.conf = @ + 1, !.pages = @ - 1],
               out |-> <<Tok(v)>>] :
                v \in {"YESNO", "CONFIRM"}}
        ELSE {})

ShowPage(d, lead) ==
  {[dev |-> [r.dev EXCEPT !.seg = d.seg + 1], out |-> lead \o <<Seg(d.seg)>> \o r.out] :
     r \in PageEnds(d)}

Answers(d, l) ==
  CASE d.closed \/ d.mode \in {"off", "dead"} -> {}
    [] d.mode = "sshpw" ->
         IF l.x = "cml_pass" THEN {[dev |-> [d EXCEPT !.mode = "cons"], out |-> <<Tok("CONS")>>]}
         ELSE {[dev |-> d, out |-> <<Tok("PW")>>]}
    [] d.mode = "cons" ->
         IF l.x = "connect"
         THEN {[dev |-> [d EXCEPT !.mode = m], out |-> <<Tok("CONN"), Tok("ESCM")>>] :
                 m \in {"login", "pwonly", "user", "priv"}}
              \cup {[dev |-> [d EXCEPT !.mode = "dead"], out |-> <<Tok("CONN")>>]}
         ELSE IF l.x = "exit" THEN {[dev |-> [d EXCEPT !.closed = TRUE], out |-> <<>>]}
         ELSE {[dev |-> d, out |-> <<Tok("CONS")>>]}
    [] l.x = "ESCAPE" -> {[dev |-> [d EXCEPT !.mode = "cons"], out |-> <<Tok("CONS")>>]}
    [] d.paging -> ShowPage(d, <<>>)
    [] l.x \in {"SPACE", "yes"} -> {[dev |-> d, out |-> <<>>]}
    [] d.mode = "login" ->
         IF l.x = "device_user" THEN {[dev |-> [d EXCEPT !.mode = "pw"], out |-> <<Tok("PW")>>]}
         ELSE {[dev |-> d, out |-> <<Tok("USER")>>]}
    [] d.mode \in {"pw", "pwonly"} ->
         IF l.x = "device_pass"
         THEN {[dev |-> [d EXCEPT !.mode = m], out |-> ModePrompt(m)] : m \in {"user", "priv"}}
         ELSE {[dev |-> d, out |-> <<Tok("PW")>>]}
    [] d.mode = "enpw" ->
         IF l.x = "device_enable_pass"
         THEN {[dev |-> [d EXCEPT !.mode = "priv"], out |-> <<Tok("PPROMPT")>>],
               [dev |-> d, out |-> <<Tok("PW")>>]}
         ELSE {[dev |-> d, out |-> <<Tok("PW")>>]}
    [] l.x = "CR" ->
         {[dev |-> d, out |-> ModePrompt(d.mode)]}
         \cup (IF d.partial THEN {[dev |-> d, out |-> <<Tok("BPROMPT")>>]} ELSE {})
    [] l.x = "enable" ->
         IF d.mode = "user"
         THEN {[dev |-> [d EXCEPT !.mode = "enpw"], out |-> <<Tok("PW")>>],
               [dev |-> [d EXCEPT !.mode = "priv"], out |-> <<Tok("PPROMPT")>>],
               [dev |-> d, out |-> <<Tok("UPROMPT")>>]}
         ELSE {[dev |-> d, out |-> ModePrompt(d.mode)]}
    [] l.x = "command" ->
         IF d.mode \in {"user", "priv"}
         THEN ShowPage(d, <<Echo(0)>>)
              \cup {[dev |-> d, out |-> ModePrompt(d.mode)]}
         ELSE {[dev |-> d, out |-> <<Echo(0)>> \o ModePrompt(d.mode)]}
    [] l.x = "configure terminal" ->
         IF d.mode = "priv"
         THEN {[dev |-> [d EXCEPT !.mode = "config"], out |-> <<Echo(100), Tok("CPROMPT")>>]}
         ELSE {[dev |-> d, out |-> <<Echo(100)>> \o ModePrompt(d.mode)]}
    [] l.x = "cfgcmd" ->
         IF d.mode \in {"config", "sub"}
         THEN {[dev |-> [d EXCEPT !.mode = SubMode(l.n)], out |-> e \o ModePrompt(SubMode(l.n))] :
                 e \in {<<>>, <<Echo(l.n)>>}}
         ELSE {[dev |-> d, out |-> <<Echo(l.n)>> \o ModePrompt(d.mode)]}
    [] l.x = "end" ->
         IF d.mode \in {"config", "sub"}
         THEN {[dev |-> [d EXCEPT !.mode = "priv"], out |-> <<Echo(101), Tok("PPROMPT")>>]}
         ELSE {[dev |-> d, out |-> <<Echo(101)>> \o ModePrompt(d.mode)]}
    [] OTHER -> {[dev |-> d, out |-> ModePrompt(d.mode)]}

\* an answer, no answer, or the remote side closing
React(d, l) ==
  Answers(d, l) \cup {[dev |-> d, out |-> <<>>]}
  \cup IF d.closed THEN {} ELSE {[dev |-> [d EXCEPT !.closed = TRUE], out |-> <<>>]}

RECURSIVE ReactSeq(_, _)
ReactSeq(d, ls) ==
  IF ls = <<>> THEN {[dev |-> d, out |-> <<>>]}
  ELSE UNION {{[dev |-> r2.dev, out |-> r1.out \o r2.out] : r2 \in ReactSeq(r1.dev, Tail(ls))} :
                r1 \in React(d, Head(ls))}

\* ------------------------------------------------------------ child.expect
TIMEOUT == Tok("TIMEOUT")
EOF == Tok("EOF")

\* the pattern list of the expect the driver is blocked in
ExpectPats(p) ==
  CASE p \in {"e75", "c413"} -> <<"pw", "consoles">>
    [] p \in {"e85", "c423", "e310", "c551"} -> <<"consoles">>
    [] p \in {"e100", "c437"} -> <<"conn">>
    [] p \in {"e104", "c440"} -> <<"esc">>
    [] p = "e139" -> <<"user", "login", "pw", "cisco_prompt", "simple_prompt">>
    [] p \in {"e159", "e216", "e282"} -> <<"cisco_prompt", "simple_prompt">>
    [] p \in {"e184", "c491"} -> <<"pw">>
    [] p \in {"e186", "e195"} -> <<"cisco_prompt">>
    [] p = "e208" -> <<"pw", "cisco_prompt">>
    [] p \in {"e211", "c511"} -> <<"hash">>
    [] p = "e236" -> <<"cisco_prompt", "simple_prompt", "more", "more2", "yesno", "confirm">>
    [] p = "c465" -> <<"user", "login", "pw", "any_prompt">>
    [] p \in {"c479", "c493", "c499"} -> <<"any_prompt">>
    [] p = "c508" -> <<"pw", "hash">>
    [] p = "c516" -> <<"config_prompt">>
    [] p = "c528" -> <<"config_prompt", "any_prompt">>
    [] p = "c538" -> <<"exec_prompt">>
    [] OTHER -> <<>>

Found == MatchPos(ExpectPats(pc), buffer) > 0
FoundIdx == MatchIdx(ExpectPats(pc), buffer)
FoundTok == buffer[MatchPos(ExpectPats(pc), buffer)]
TextBefore == SubSeq(buffer, 1, MatchPos(ExpectPats(pc), buffer) - 1)

\* a match: child.before, child.after and the rest of the buffer
Consume ==
  LET i == MatchPos(ExpectPats(pc), buffer)
  IN /\ before' = SubSeq(buffer, 1, i - 1)
     /\ after' = buffer[i]
     /\ buffer' = SubSeq(buffer, i + 1, Len(buffer))
     /\ tmo' = tmo

\* a timeout: child.before is what was read, nothing is consumed; the timeouts
\* are long enough for all that the remote side has sent to arrive first
TimedOut ==
  /\ ~Found
  /\ wire = <<>>
  /\ before' = buffer /\ after' = TIMEOUT /\ buffer' = buffer
  /\ tmo' = tmo \cup {pc}

\* end of file: everything sent by the remote side was read, none matched
AtEOF == ~Found /\ dev.closed /\ wire = <<>>
HitEOF ==
  AtEOF /\ before' = buffer /\ after' = EOF /\ buffer' = <<>> /\ tmo' = tmo

CmdExpects == {"e75", "e85", "e100", "e104", "e139", "e159", "e184", "e186",
               "e195", "e208", "e211", "e216", "e236", "e282", "e310"}
CfgExpects == {"c413", "c423", "c437", "c440", "c465", "c479", "c491", "c493",
               "c499", "c508", "c511", "c516", "c528", "c538", "c551"}

\* the history keeps the events that happen once in a run, and the first
\* carriage return; prompt matches, timeouts and repeated keys are left out
Noted(tr, e) ==
  \/ e.e \in {"spawn", "close", "enabled", "exhausted"}
  \/ e.e = "match" /\ e.x \in {"PW", "USER", "LOGIN", "CONS", "CONN", "ESCM"}
  \/ e.e = "send" /\ e.x \notin {"CR", "SPACE", "yes"}
  \/ e.e = "send" /\ e.x = "CR" /\ \A i \in 1..Len(tr) : tr[i] # e

RECURSIVE Record(_, _)
Record(tr, evs) ==
  IF evs = <<>> THEN tr
  ELSE Record(IF Noted(tr, Head(evs)) THEN Append(tr, Head(evs)) ELSE tr, Tail(evs))

\* the driver goes on to the expect at p after sending the lines ls
Go(p, ls, evs) ==
  /\ pc' = p
  /\ \E r \in ReactSeq(dev, ls) :
       /\ dev' = r.dev
       /\ wire' = wire \o r.out
       /\ emitted' = emitted \o r.out
  /\ trace' = Record(trace, evs)
  /\ UNCHANGED <<child, err>>

\* variant: an except clause that raises without closing the child
FailLeak(kind, cause, bufv, befv, evs) ==
  /\ pc' = "failed"
  /\ err' = [kind |-> kind, cause |-> cause, at |-> pc, buffer |-> bufv, before |-> befv]
  /\ child' = child
  /\ trace' = Record(trace, evs)
  /\ UNCHANGED <<wire, dev, emitted>>

\* an except clause: close(force=True) when there is a child, then raise
Fail(kind, cause, bufv, befv, evs) ==
  /\ pc' = "failed"
  /\ err' = [kind |-> kind, cause |-> cause, at |-> pc, buffer |-> bufv, before |-> befv]
  /\ child' = IF child = "none" THEN "none" ELSE "closed"
  /\ trace' = Record(trace, evs \o
                     (IF child = "none" THEN <<>> ELSE <<Ev("close", "force")>>))
  /\ UNCHANGED <<wire, dev, emitted>>

\* expect reads what has arrived, in pieces of any size, until a pattern matches
Read ==
  /\ pc \in CmdExpects \cup CfgExpects
  /\ ~Found
  /\ \E n \in 1..Len(wire) :
       /\ buffer' = buffer \o SubSeq(wire, 1, n)
       /\ wire' = SubSeq(wire, n + 1, Len(wire))
  /\ UNCHANGED <<inputs, pc, child, before, after, loops, outs, err, dev, emitted, tmo,
                 sentAt, trace>>

\* -------------------------------------------------------------------- Init
\* an invocation before its coroutine has run
Sessions == 1..MaxSessions
NewSess == [at |-> "new", awaiting |-> FALSE, tr |-> 0, open |-> FALSE,
            sent |-> FALSE, late |-> FALSE]

Batches == {[i \in 1..n |-> i] : n \in 0..MaxCmds}
\* bound: the callers of the tools, each with a context of its own
MaxCallers == 2
\* bound: the invocations of the command tool the callers make in all
MaxInvocations == 2
Callers == 1..MaxCallers

\* execute_device_command before its first line
NewInv == [at |-> "idle", n |-> 0, client |-> 0, console_key |-> 0,
           connects |-> <<>>,
           raw_output |-> FALSE, parsed |-> "none", ret |-> "none",
           init |-> FALSE, past |-> <<>>, ran |-> 0]

\* the state before the spawn, with the device behind the console
InitDevice(d) ==
  /\ op \in {"cmd", "cfg"}
  /\ device_user \in BOOLEAN
  /\ device_pass \in BOOLEAN
  /\ device_enable_pass \in BOOLEAN
  /\ commands \in IF op = "cfg" THEN Batches ELSE {<<>>}
  /\ pc = "spawn"
  /\ child = "none"
  /\ buffer = <<>>
  /\ before = <<>>
  /\ after = Tok("none")
  /\ attempt = 0
  /\ iteration = 0
  /\ cmdIdx = 0
  /\ output_buffer = <<>>
  /\ all_output = <<>>
  /\ result = <<>>
  /\ err = NoErr
  /\ wire = <<>>
  /\ dev = d
  /\ emitted = <<>>
  /\ tmo = {}
  /\ sentAt = [emitted |-> 0, unread |-> 0]
  /\ keys = [space |-> 0, yes |-> 0, probe |-> 0]
  /\ trace = <<>>
  /\ sess = [s \in Sessions |-> NewSess]
  /\ queue = <<>>
  /\ made = 0
  /\ cml_client = 0
  /\ environ = 0
  /\ issued = 0
  /\ inv = [c \in Callers |-> NewInv]

\* the same with the number of pages the device may show and the number of
\* confirmations it has asked for
InitSession(pages, conf) == InitDevice([Dev0 EXCEPT !.pages = pages, !.conf = conf])

NoArgs == [f |-> "none"]

InitWith(pages, conf) ==
  /\ InitSession(pages, conf)
  /\ given = NoArgs
  /\ got = <<>>

Init == InitWith(MaxPages, 0)

\* pexpect.spawn: the ssh client asks for the password, or is let in by key,
\* or says nothing, or exits; it may print a message of its own first
Spawned(d) ==
  {[dev |-> [d EXCEPT !.mode = "sshpw"], out |-> <<Tok("PW")>>],
   [dev |-> [d EXCEPT !.mode = "cons"], out |-> <<Tok("CONS")>>],
   [dev |-> [d EXCEPT !.mode = "sshpw"], out |-> <<>>],
   [dev |-> [d EXCEPT !.mode = "sshpw"], out |-> <<Tok("NOISE")>>],
   [dev |-> [d EXCEPT !.closed = TRUE], out |-> <<>>],
   [dev |-> [d EXCEPT !.closed = TRUE], out |-> <<Tok("NOISE")>>]}

Spawn(p) ==
  /\ pc = "spawn"
  /\ pc' = p
  /\ child' = "open"
  /\ \E r \in Spawned(dev) :
       /\ dev' = r.dev
       /\ wire' = r.out
       /\ emitted' = r.out
  /\ trace' = <<Ev("spawn", "ssh")>>
  /\ UNCHANGED <<inputs, buffer, before, after, loops, outs, err, tmo, sentAt>>

\* ------------------------------------------------- execute_via_console
S(x) == SendEv(Line(x))
M(tk) == Ev("match", tk.t)
T(p) == Ev("timeout", p)

CmdSpawn == op = "cmd" /\ Spawn("e75")

\* pexpect.spawn raises: child is still None in the generic except clause
CmdSpawnFail ==
  /\ op = "cmd" /\ pc = "spawn"
  /\ Fail("RuntimeError", "spawn", <<>>, <<>>, <<>>)
  /\ UNCHANGED <<inputs, buffer, before, after, loops, outs, tmo, sentAt>>

\* variant: the password and the connect line go out together
CmdAuthPasswordEarly ==
  /\ pc = "e75" /\ Found /\ FoundIdx = 1
  /\ Consume
  /\ Go("e100", <<Line("cml_pass"), Line("connect")>>,
        <<M(FoundTok), S("cml_pass"), S("connect")>>)
  /\ UNCHANGED <<fixed, loops, outs>>

\* lines 75-96: console-server authentication; TIMEOUT and EOF are in the list,
\* and the builtin exceptions raised for them end in the generic except clause
CmdAuthPassword ==
  /\ pc = "e75" /\ Found /\ FoundIdx = 1
  /\ Consume
  /\ Go("e85", <<Line("cml_pass")>>, <<M(FoundTok), S("cml_pass")>>)
  /\ UNCHANGED <<fixed, loops, outs>>

CmdAuthKey ==
  /\ pc = "e75" /\ Found /\ FoundIdx = 2
  /\ Consume
  /\ Go("e100", <<Line("connect")>>, <<M(FoundTok), S("connect")>>)
  /\ UNCHANGED <<fixed, loops, outs>>

CmdAuthTimeout ==
  /\ pc = "e75" /\ TimedOut
  /\ Fail("RuntimeError", "timeout", <<>>, <<>>, <<T(pc)>>)
  /\ UNCHANGED <<fixed, loops, outs>>

CmdAuthEOF ==
  /\ pc = "e75" /\ HitEOF
  /\ Fail("RuntimeError", "eof", <<>>, <<>>, <<Ev("eof", pc)>>)
  /\ UNCHANGED <<fixed, loops, outs>>

CmdAuthDone ==
  /\ pc = "e85" /\ Found
  /\ Consume
  /\ Go("e100", <<Line("connect")>>, <<M(FoundTok), S("connect")>>)
  /\ UNCHANGED <<fixed, loops, outs>>

\* lines 100-121: both attach markers, the drain, two carriage returns
CmdAttachConnected ==
  /\ pc = "e100" /\ Found
  /\ Consume
  /\ Go("e104", <<>>, <<M(FoundTok)>>)
  /\ UNCHANGED <<fixed, loops, outs>>

\* read_nonblocking discards what is available on the descriptor (any part of
\* what has arrived); it raises EOF when the child is gone
Drain(p, evs) ==
  LET i == MatchPos(ExpectPats(pc), buffer)
  IN /\ before' = SubSeq(buffer, 1, i - 1)
     /\ after' = buffer[i]
     /\ buffer' = SubSeq(buffer, i + 1, Len(buffer))
     /\ tmo' = tmo
     /\ IF dev.closed /\ wire = <<>>
        THEN Fail("ConnectionError", "eof", <<>>, <<>>, evs \o <<Ev("eof", "drain")>>)
        ELSE \E n \in 0..Len(wire) :
               /\ pc' = p
               /\ \E r \in ReactSeq(dev, <<Line("CR"), Line("CR")>>) :
                    /\ dev' = r.dev
                    /\ wire' = SubSeq(wire, n + 1, Len(wire)) \o r.out
                    /\ emitted' = emitted \o r.out
               /\ trace' = Record(trace, evs \o <<S("CR"), S("CR")>>)
               /\ UNCHANGED <<child, err>>

CmdAttachEscape ==
  /\ pc = "e104" /\ Found
  /\ Drain("e139", <<M(FoundTok)>>)
  /\ UNCHANGED <<fixed, loops, outs>>

\* lines 197-216: from the prompt in child.after to the carriage return of Ready
EndsWith(tk, c) ==
  LET t == Strip(Render(tk)) IN t # <<>> /\ t[Len(t)] = c

CmdAtPrompt(aft, evs) ==
  IF aft = TIMEOUT
  THEN Fail("RuntimeError", "attr", <<>>, <<>>, evs)
  ELSE IF device_enable_pass /\ ~EndsWith(aft, 35)
  THEN Go("e208", <<Line("enable")>>, evs \o <<S("enable")>>)
  ELSE Go("e216", <<Line("CR")>>, evs \o <<S("CR")>>)

\* lines 139-195: prompt stabilization
CmdPromptTimeout ==
  /\ pc = "e139" /\ TimedOut
  /\ attempt' = 0
  /\ Go("e159", <<Line("CR")>>, <<T(pc), S("CR")>>)
  /\ UNCHANGED <<fixed, iteration, cmdIdx, keys, outs>>

CmdPromptLogin ==
  /\ pc = "e139" /\ Found /\ FoundIdx \in {1, 2}
  /\ Consume
  /\ IF ~device_user
     THEN Fail("RuntimeError", "nocreds", <<>>, <<>>, <<M(FoundTok)>>)
     ELSE Go("e184", <<Line("device_user")>>, <<M(FoundTok), S("device_user")>>)
  /\ UNCHANGED <<fixed, loops, outs>>

CmdPromptPassword ==
  /\ pc = "e139" /\ Found /\ FoundIdx = 3
  /\ Consume
  /\ IF ~device_pass
     THEN Fail("RuntimeError", "nocreds", <<>>, <<>>, <<M(FoundTok)>>)
     ELSE Go("e195", <<Line("device_pass")>>, <<M(FoundTok), S("device_pass")>>)
  /\ UNCHANGED <<fixed, loops, outs>>

CmdPromptSeen ==
  /\ pc = "e139" /\ Found /\ FoundIdx \in {4, 5}
  /\ Consume
  /\ CmdAtPrompt(FoundTok, <<M(FoundTok)>>)
  /\ UNCHANGED <<fixed, loops, outs>>

CmdRetrySeen ==
  /\ pc = "e159" /\ Found
  /\ Consume
  /\ CmdAtPrompt(FoundTok, <<M(FoundTok)>>)
  /\ UNCHANGED <<fixed, loops, outs>>

\* the for-else: after the last attempt the partial buffer is inspected
LooksLikePrompt(buf) ==
  buf # <<>> /\ buf[Len(buf)].t \in PatToks("simple_prompt")

CmdRetryTimeout ==
  /\ pc = "e159" /\ TimedOut
  /\ IF attempt + 1 < RetryAttempts
     THEN /\ attempt' = attempt + 1
          /\ Go("e159", <<Line("CR")>>, <<T(pc), S("CR")>>)
     ELSE /\ attempt' = attempt
          /\ IF LooksLikePrompt(buffer)
             THEN CmdAtPrompt(TIMEOUT, <<T(pc)>>)
             ELSE Fail("RuntimeError", "timeout", <<>>, buffer, <<T(pc)>>)
  /\ UNCHANGED <<fixed, iteration, cmdIdx, keys, outs>>

\* sendline(None) raises TypeError
CmdLoginPassword ==
  /\ pc = "e184" /\ Found
  /\ Consume
  /\ IF device_pass
     THEN Go("e186", <<Line("device_pass")>>, <<M(FoundTok), S("device_pass")>>)
     ELSE Fail("RuntimeError", "nonestr", <<>>, <<>>, <<M(FoundTok)>>)
  /\ UNCHANGED <<fixed, loops, outs>>

CmdLoginDone ==
  /\ pc \in {"e186", "e195"} /\ Found
  /\ Consume
  /\ CmdAtPrompt(FoundTok, <<M(FoundTok)>>)
  /\ UNCHANGED <<fixed, loops, outs>>

\* lines 208-212: enable
CmdEnablePassword ==
  /\ pc = "e208" /\ Found /\ FoundIdx = 1
  /\ Consume
  /\ Go("e211", <<Line("device_enable_pass")>>, <<M(FoundTok), S("device_enable_pass")>>)
  /\ UNCHANGED <<fixed, loops, outs>>

CmdEnableDone ==
  /\ pc \in {"e208", "e211"} /\ Found /\ (pc = "e208" => FoundIdx = 2)
  /\ Consume
  /\ Go("e216", <<Line("CR")>>, <<M(FoundTok), Ev("enabled", pc), S("CR")>>)
  /\ UNCHANGED <<fixed, loops, outs>>

\* lines 216-231: Ready, then the command line
CmdReady ==
  /\ pc = "e216" /\ Found
  /\ Consume
  /\ output_buffer' = <<>>
  /\ iteration' = 0
  /\ sentAt' = [emitted |-> Len(emitted), unread |-> Len(buffer') + Len(wire)]
  /\ Go("e236", <<Line("command")>>, <<M(FoundTok), S("command")>>)
  /\ UNCHANGED <<inputs, attempt, cmdIdx, keys, all_output, result>>

\* lines 234-300: the Executing loop
AppendIf(buf, text) == IF text # <<>> THEN Append(buf, text) ELSE buf

\* variant: "while True" in place of "for iteration in range(max_iterations)"
CmdLoopNextForever(key) ==
  /\ iteration' = iteration
  /\ Go("e236", <<key>>, <<>>)

\* variant: a range used up is an error
CmdLoopNextRaise(key) ==
  /\ iteration' = iteration + 1
  /\ IF iteration + 1 < max_iterations
     THEN Go("e236", <<key>>, <<>>)
     ELSE Fail("RuntimeError", "exhausted", <<>>, <<>>, <<Ev("exhausted", pc)>>)

\* the loop goes round again, or its range is used up and Detaching starts
CmdLoopNext(key) ==
  /\ iteration' = iteration + 1
  /\ IF iteration + 1 < max_iterations
     THEN Go("e236", <<key>>, <<>>)
     ELSE Go("e310", <<key, Line("ESCAPE")>>, <<Ev("exhausted", pc), S("ESCAPE")>>)

CmdExecPrompt ==
  /\ pc = "e236" /\ Found /\ FoundIdx \in {1, 2}
  /\ Consume
  /\ output_buffer' = AppendIf(output_buffer, TextBefore)
  /\ Go("e310", <<Line("ESCAPE")>>, <<M(FoundTok), S("ESCAPE")>>)
  /\ UNCHANGED <<fixed, loops, all_output, result>>

\* variant: a page is continued without keeping its text
CmdExecPagerDrop ==
  /\ pc = "e236" /\ Found /\ FoundIdx \in {3, 4}
  /\ Consume
  /\ output_buffer' = output_buffer
  /\ keys' = [keys EXCEPT !.space = @ + 1]
  /\ CmdLoopNext(Line("SPACE"))
  /\ UNCHANGED <<fixed, attempt, cmdIdx, all_output, result>>

\* lines 253-257: a pager marker, the page is kept and a space is sent
CmdExecPager ==
  /\ pc = "e236" /\ Found /\ FoundIdx \in {3, 4}
  /\ Consume
  /\ output_buffer' = AppendIf(output_buffer, TextBefore)
  /\ keys' = [keys EXCEPT !.space = @ + 1]
  /\ CmdLoopNext(Line("SPACE"))
  /\ UNCHANGED <<fixed, attempt, cmdIdx, all_output, result>>

\* variant: a confirmation is answered like a pager
CmdExecConfirmSpace ==
  /\ pc = "e236" /\ Found /\ FoundIdx \in {5, 6}
  /\ Consume
  /\ output_buffer' = AppendIf(output_buffer, TextBefore)
  /\ keys' = [keys EXCEPT !.space = @ + 1]
  /\ CmdLoopNext(Line("SPACE"))
  /\ UNCHANGED <<fixed, attempt, cmdIdx, all_output, result>>

CmdExecConfirm ==
  /\ pc = "e236" /\ Found /\ FoundIdx \in {5, 6}
  /\ Consume
  /\ output_buffer' = AppendIf(output_buffer, TextBefore)
  /\ keys' = [keys EXCEPT !.yes = @ + 1]
  /\ CmdLoopNext(Line("yes"))
  /\ UNCHANGED <<fixed, attempt, cmdIdx, all_output, result>>

\* variant: the recovery probe is made at every timeout
CmdExecTimeoutAlways ==
  /\ pc = "e236" /\ TimedOut
  /\ output_buffer' = AppendIf(output_buffer, buffer)
  /\ keys' = [keys EXCEPT !.probe = @ + 1]
  /\ Go("e282", <<Line("CR")>>, <<T(pc)>>)
  /\ UNCHANGED <<fixed, attempt, iteration, cmdIdx, all_output, result>>

\* lines 265-292: the recovery probe is made only when something was captured
CmdExecTimeout ==
  /\ pc = "e236" /\ TimedOut
  /\ output_buffer' = AppendIf(output_buffer, buffer)
  /\ IF AppendIf(output_buffer, buffer) # <<>>
     THEN /\ keys' = [keys EXCEPT !.probe = @ + 1]
          /\ Go("e282", <<Line("CR")>>, <<T(pc)>>)
     ELSE /\ keys' = keys
          /\ Fail("TimeoutError", "timeout", buffer, buffer, <<T(pc)>>)
  /\ UNCHANGED <<fixed, attempt, iteration, cmdIdx, all_output, result>>

CmdRecovered ==
  /\ pc = "e282" /\ Found
  /\ Consume
  /\ output_buffer' = AppendIf(output_buffer, TextBefore)
  /\ Go("e310", <<Line("ESCAPE")>>, <<M(FoundTok), S("ESCAPE")>>)
  /\ UNCHANGED <<fixed, loops, all_output, result>>

\* lines 300-323: join, close, clean
CmdReturn(evs) ==
  LET output == Flatten([i \in 1..Len(output_buffer) |-> RenderAll(output_buffer[i])])
  IN /\ pc' = "done"
     /\ child' = "closed"
     /\ result' = IF output # <<>> THEN clean_output(output, command) ELSE <<>>
     /\ trace' = Record(trace, evs \o <<Ev("close", "force")>>)
     /\ UNCHANGED <<fixed, loops, output_buffer, all_output, err>>

CmdDetached ==
  /\ pc = "e310" /\ Found
  /\ Consume
  /\ \E r \in React(dev, Line("exit")) :
       /\ dev' = r.dev
       /\ wire' = wire \o r.out
       /\ emitted' = emitted \o r.out
  /\ CmdReturn(<<M(FoundTok), S("exit")>>)

CmdDetachTimeout ==
  /\ pc = "e310" /\ TimedOut
  /\ CmdReturn(<<T(pc)>>)
  /\ UNCHANGED <<wire, dev, emitted>>

\* variant: a timeout after "enable" is passed over
CmdTIMEOUTSoftEnable ==
  /\ pc \in {"e85", "e100", "e104", "e184", "e186", "e195", "e208", "e211", "e216", "e282"}
  /\ TimedOut
  /\ IF pc \in {"e208", "e211"}
     THEN Go("e216", <<Line("CR")>>, <<T(pc), S("CR")>>)
     ELSE Fail("TimeoutError", "timeout", buffer, buffer, <<T(pc)>>)
  /\ UNCHANGED <<fixed, loops, outs>>

\* variant: a marker of the console server missed is reported as a failed
\* connection
CmdTIMEOUTAttach ==
  /\ pc \in {"e85", "e100", "e104", "e184", "e186", "e195", "e208", "e211", "e216", "e282"}
  /\ TimedOut
  /\ IF pc \in {"e100", "e104"}
     THEN Fail("ConnectionError", "timeout", <<>>, buffer, <<T(pc)>>)
     ELSE Fail("TimeoutError", "timeout", buffer, buffer, <<T(pc)>>)
  /\ UNCHANGED <<fixed, loops, outs>>

\* lines 325-341: except pexpect.TIMEOUT, for every expect without TIMEOUT in
\* its list and without a try of its own
CmdTIMEOUT ==
  /\ pc \in {"e85", "e100", "e104", "e184", "e186", "e195", "e208", "e211", "e216", "e282"}
  /\ TimedOut
  /\ Fail("TimeoutError", "timeout", buffer, buffer, <<T(pc)>>)
  /\ UNCHANGED <<fixed, loops, outs>>

\* lines 342-346: except pexpect.EOF, for every expect without EOF in its list;
\* str(e) ends with str(child), which shows the end of child.before
CmdEOF ==
  /\ pc \in CmdExpects \ {"e75"}
  /\ HitEOF
  /\ Fail("ConnectionError", "eof", <<>>, buffer, <<Ev("eof", pc)>>)
  /\ UNCHANGED <<fixed, loops, outs>>

CmdNext ==
  \/ CmdSpawn \/ CmdSpawnFail
  \/ CmdAuthPassword \/ CmdAuthKey \/ CmdAuthTimeout \/ CmdAuthEOF \/ CmdAuthDone
  \/ CmdAttachConnected \/ CmdAttachEscape
  \/ CmdPromptTimeout \/ CmdPromptLogin \/ CmdPromptPassword \/ CmdPromptSeen
  \/ CmdRetrySeen \/ CmdRetryTimeout
  \/ CmdLoginPassword \/ CmdLoginDone
  \/ CmdEnablePassword \/ CmdEnableDone
  \/ CmdReady
  \/ CmdExecPrompt \/ CmdExecPager \/ CmdExecConfirm \/ CmdExecTimeout
  \/ CmdRecovered
  \/ CmdDetached \/ CmdDetachTimeout
  \/ CmdTIMEOUT \/ CmdEOF

\* --------------------------------------------- execute_config_commands
EnteredText == <<2001>>
ExitedText == <<2002>>
OKText == <<79, 75>>

\* f"{cmd}: {output.strip()}" and f"{cmd}: OK"
Labelled(k, text) ==
  CmdText(k) \o <<58, SP>> \o (IF text # <<>> THEN Strip(RenderAll(text)) ELSE OKText)

CfgSpawn == op = "cfg" /\ Spawn("c413")

CfgSpawnFail ==
  /\ op = "cfg" /\ pc = "spawn"
  /\ Fail("RuntimeError", "spawn", <<>>, <<>>, <<>>)
  /\ UNCHANGED <<inputs, buffer, before, after, loops, outs, tmo, sentAt>>

\* lines 413-434: console-server authentication
CfgAuthPassword ==
  /\ pc = "c413" /\ Found /\ FoundIdx = 1
  /\ Consume
  /\ Go("c423", <<Line("cml_pass")>>, <<M(FoundTok), S("cml_pass")>>)
  /\ UNCHANGED <<fixed, loops, outs>>

CfgAuthKey ==
  /\ pc = "c413" /\ Found /\ FoundIdx = 2
  /\ Consume
  /\ Go("c437", <<Line("connect")>>, <<M(FoundTok), S("connect")>>)
  /\ UNCHANGED <<fixed, loops, outs>>

CfgAuthTimeout ==
  /\ pc = "c413" /\ TimedOut
  /\ Fail("RuntimeError", "timeout", <<>>, <<>>, <<T(pc)>>)
  /\ UNCHANGED <<fixed, loops, outs>>

CfgAuthEOF ==
  /\ pc = "c413" /\ HitEOF
  /\ Fail("RuntimeError", "eof", <<>>, <<>>, <<Ev("eof", pc)>>)
  /\ UNCHANGED <<fixed, loops, outs>>

CfgAuthDone ==
  /\ pc = "c423" /\ Found
  /\ Consume
  /\ Go("c437", <<Line("connect")>>, <<M(FoundTok), S("connect")>>)
  /\ UNCHANGED <<fixed, loops, outs>>

\* lines 437-456: both attach markers, the drain, two carriage returns
CfgAttachConnected ==
  /\ pc = "c437" /\ Found
  /\ Consume
  /\ Go("c440", <<>>, <<M(FoundTok)>>)
  /\ UNCHANGED <<fixed, loops, outs>>

CfgAttachEscape ==
  /\ pc = "c440" /\ Found
  /\ Drain("c465", <<M(FoundTok)>>)
  /\ UNCHANGED <<fixed, loops, outs>>

\* lines 501-515: enable whenever the prompt ends in '>', then configure terminal
CfgAtPrompt(aft, evs) ==
  IF EndsWith(aft, 62)
  THEN Go("c508", <<Line("enable")>>, evs \o <<S("enable")>>)
  ELSE Go("c516", <<Line("configure terminal")>>, evs \o <<S("configure terminal")>>)

\* lines 465-499: prompt stabilization
CfgPromptTimeout ==
  /\ pc = "c465" /\ TimedOut
  /\ attempt' = 0
  /\ Go("c479", <<Line("CR")>>, <<T(pc), S("CR")>>)
  /\ UNCHANGED <<fixed, iteration, cmdIdx, keys, outs>>

CfgPromptLogin ==
  /\ pc = "c465" /\ Found /\ FoundIdx \in {1, 2}
  /\ Consume
  /\ IF ~device_user
     THEN Fail("RuntimeError", "nocreds", <<>>, <<>>, <<M(FoundTok)>>)
     ELSE Go("c491", <<Line("device_user")>>, <<M(FoundTok), S("device_user")>>)
  /\ UNCHANGED <<fixed, loops, outs>>

CfgPromptPassword ==
  /\ pc = "c465" /\ Found /\ FoundIdx = 3
  /\ Consume
  /\ IF ~device_pass
     THEN Fail("RuntimeError", "nocreds", <<>>, <<>>, <<M(FoundTok)>>)
     ELSE Go("c499", <<Line("device_pass")>>, <<M(FoundTok), S("device_pass")>>)
  /\ UNCHANGED <<fixed, loops, outs>>

CfgPromptSeen ==
  /\ pc = "c465" /\ Found /\ FoundIdx = 4
  /\ Consume
  /\ CfgAtPrompt(FoundTok, <<M(FoundTok)>>)
  /\ UNCHANGED <<fixed, loops, outs>>

CfgRetrySeen ==
  /\ pc = "c479" /\ Found
  /\ Consume
  /\ CfgAtPrompt(FoundTok, <<M(FoundTok)>>)
  /\ UNCHANGED <<fixed, loops, outs>>

\* pexpect.TIMEOUT is caught in the loop; the for-else raises the builtin
CfgRetryTimeout ==
  /\ pc = "c479" /\ TimedOut
  /\ IF attempt + 1 < RetryAttempts
     THEN /\ attempt' = attempt + 1
          /\ Go("c479", <<Line("CR")>>, <<T(pc), S("CR")>>)
     ELSE /\ attempt' = attempt
          /\ Fail("RuntimeError", "timeout", <<>>, <<>>, <<T(pc)>>)
  /\ UNCHANGED <<fixed, iteration, cmdIdx, keys, outs>>

CfgLoginPassword ==
  /\ pc = "c491" /\ Found
  /\ Consume
  /\ IF device_pass
     THEN Go("c493", <<Line("device_pass")>>, <<M(FoundTok), S("device_pass")>>)
     ELSE Fail("RuntimeError", "nonestr", <<>>, <<>>, <<M(FoundTok)>>)
  /\ UNCHANGED <<fixed, loops, outs>>

CfgLoginDone ==
  /\ pc \in {"c493", "c499"} /\ Found
  /\ Consume
  /\ CfgAtPrompt(FoundTok, <<M(FoundTok)>>)
  /\ UNCHANGED <<fixed, loops, outs>>

\* lines 508-515: the enable secret is sent only when there is one
CfgEnablePassword ==
  /\ pc = "c508" /\ Found /\ FoundIdx = 1 /\ device_enable_pass
  /\ Consume
  /\ Go("c511", <<Line("device_enable_pass")>>, <<M(FoundTok), S("device_enable_pass")>>)
  /\ UNCHANGED <<fixed, loops, outs>>

CfgEnableDone ==
  /\ pc \in {"c508", "c511"} /\ Found
  /\ pc = "c508" => (FoundIdx = 2 \/ ~device_enable_pass)
  /\ Consume
  /\ Go("c516", <<Line("configure terminal")>>,
        <<M(FoundTok), Ev("enabled", pc), S("configure terminal")>>)
  /\ UNCHANGED <<fixed, loops, outs>>

\* variant: "end" and the escape go out together, no prompt is awaited
CfgLoopNextNoWait(evs) ==
  IF cmdIdx < Len(commands)
  THEN /\ cmdIdx' = cmdIdx + 1
       /\ Go("c528", <<CmdLine(commands[cmdIdx + 1])>>,
             evs \o <<SendEv(CmdLine(commands[cmdIdx + 1]))>>)
  ELSE /\ cmdIdx' = cmdIdx
       /\ Go("c551", <<Line("end"), Line("ESCAPE")>>, evs \o <<S("end"), S("ESCAPE")>>)

\* variant: the rest of the batch goes out at once, no prompt is awaited
\* between two commands
CfgLoopNextAtOnce(evs) ==
  IF cmdIdx < Len(commands)
  THEN /\ cmdIdx' = Len(commands)
       /\ Go("c528", [i \in 1..(Len(commands) - cmdIdx) |-> CmdLine(commands[cmdIdx + i])],
             evs \o [i \in 1..(Len(commands) - cmdIdx) |->
                       SendEv(CmdLine(commands[cmdIdx + i]))])
  ELSE /\ cmdIdx' = cmdIdx
       /\ Go("c538", <<Line("end")>>, evs \o <<S("end")>>)

\* lines 520-537: the next command of the batch, or "end" after the last
CfgLoopNext(evs) ==
  IF cmdIdx < Len(commands)
  THEN /\ cmdIdx' = cmdIdx + 1
       /\ Go("c528", <<CmdLine(commands[cmdIdx + 1])>>,
             evs \o <<SendEv(CmdLine(commands[cmdIdx + 1]))>>)
  ELSE /\ cmdIdx' = cmdIdx
       /\ Go("c538", <<Line("end")>>, evs \o <<S("end")>>)

CfgEntered ==
  /\ pc = "c516" /\ Found
  /\ Consume
  /\ all_output' = Append(all_output, EnteredText)
  /\ CfgLoopNext(<<M(FoundTok)>>)
  /\ UNCHANGED <<fixed, attempt, iteration, keys, output_buffer, result>>

\* variant: a command without output leaves no entry
CfgCommandDoneQuiet ==
  /\ pc = "c528" /\ Found
  /\ Consume
  /\ all_output' = IF TextBefore # <<>>
                    THEN Append(all_output, Labelled(commands[cmdIdx], TextBefore))
                    ELSE all_output
  /\ CfgLoopNext(<<M(FoundTok)>>)
  /\ UNCHANGED <<fixed, attempt, iteration, keys, output_buffer, result>>

\* lines 528-533: one entry per command
CfgCommandDone ==
  /\ pc = "c528" /\ Found
  /\ Consume
  /\ all_output' = Append(all_output, Labelled(commands[cmdIdx], TextBefore))
  /\ CfgLoopNext(<<M(FoundTok)>>)
  /\ UNCHANGED <<fixed, attempt, iteration, keys, output_buffer, result>>

\* lines 538-548
CfgExited ==
  /\ pc = "c538" /\ Found
  /\ Consume
  /\ all_output' = Append(all_output, ExitedText)
  /\ Go("c551", <<Line("ESCAPE")>>, <<M(FoundTok), S("ESCAPE")>>)
  /\ UNCHANGED <<fixed, loops, output_buffer, result>>

\* lines 550-558
CfgReturn(evs) ==
  /\ pc' = "done"
  /\ child' = "closed"
  /\ result' = JoinLines(all_output)
  /\ trace' = Record(trace, evs \o <<Ev("close", "force")>>)
  /\ UNCHANGED <<fixed, loops, output_buffer, all_output, err>>

CfgDetached ==
  /\ pc = "c551" /\ Found
  /\ Consume
  /\ \E r \in React(dev, Line("exit")) :
       /\ dev' = r.dev
       /\ wire' = wire \o r.out
       /\ emitted' = emitted \o r.out
  /\ CfgReturn(<<M(FoundTok), S("exit")>>)

CfgDetachTimeout ==
  /\ pc = "c551" /\ TimedOut
  /\ CfgReturn(<<T(pc)>>)
  /\ UNCHANGED <<wire, dev, emitted>>

\* lines 560-568: except pexpect.TIMEOUT
CfgTIMEOUT ==
  /\ pc \in {"c423", "c437", "c440", "c491", "c493", "c499", "c508", "c511",
             "c516", "c528", "c538"}
  /\ TimedOut
  /\ Fail("TimeoutError", "timeout", buffer, buffer, <<T(pc)>>)
  /\ UNCHANGED <<fixed, loops, outs>>

\* lines 569-573: except pexpect.EOF
CfgEOF ==
  /\ pc \in CfgExpects \ {"c413"}
  /\ HitEOF
  /\ Fail("ConnectionError", "eof", <<>>, buffer, <<Ev("eof", pc)>>)
  /\ UNCHANGED <<fixed, loops, outs>>

CfgNext ==
  \/ CfgSpawn \/ CfgSpawnFail
  \/ CfgAuthPassword \/ CfgAuthKey \/ CfgAuthTimeout \/ CfgAuthEOF \/ CfgAuthDone
  \/ CfgAttachConnected \/ CfgAttachEscape
  \/ CfgPromptTimeout \/ CfgPromptLogin \/ CfgPromptPassword \/ CfgPromptSeen
  \/ CfgRetrySeen \/ CfgRetryTimeout
  \/ CfgLoginPassword \/ CfgLoginDone
  \/ CfgEnablePassword \/ CfgEnableDone
  \/ CfgEntered \/ CfgCommandDone \/ CfgExited
  \/ CfgDetached \/ CfgDetachTimeout
  \/ CfgTIMEOUT \/ CfgEOF

Next == Read \/ CmdNext \/ CfgNext

Spec == Init /\ [][Next]_vars

TypeOK == pc \in {"spawn", "done", "failed"} \cup CmdExpects \cup CfgExpects

\* ---------------------------------------------------- concurrent invocations
\* Several coroutines call execute_via_console or execute_config_commands on
\* one event loop. Each hands its blocking function to the loop's default
\* executor (run_in_executor(None, ...)), a thread pool of Workers threads, and
\* awaits the future. A thread's run is cut down to: spawn the child, send
\* lines, each followed by an expect that matches or by one that finds
\* nothing until its timeout, and close the child.
Busy == {s \in Sessions : sess[s].at \in {"running", "blocked"}}

InitPool ==
  /\ InitWith(MaxPages, 0)
  /\ op = "cmd" /\ ~device_user /\ ~device_pass /\ ~device_enable_pass

\* variant: an executor of a single thread
PoolSubmitSingle(s) ==
  /\ sess[s].at = "new"
  /\ IF Cardinality(Busy) < 1
     THEN /\ sess' = [sess EXCEPT ![s].at = "running", ![s].awaiting = TRUE]
          /\ queue' = queue
     ELSE /\ sess' = [sess EXCEPT ![s].at = "queued", ![s].awaiting = TRUE]
          /\ queue' = Append(queue, s)
  /\ UNCHANGED made

\* lines 353-355: the function is run by a thread that is free, or by a new
\* thread while the pool has fewer than Workers, or waits in the work queue
PoolSubmit(s) ==
  /\ sess[s].at = "new"
  /\ IF Cardinality(Busy) < Workers
     THEN /\ sess' = [sess EXCEPT ![s].at = "running", ![s].awaiting = TRUE]
          /\ queue' = queue
     ELSE /\ sess' = [sess EXCEPT ![s].at = "queued", ![s].awaiting = TRUE]
          /\ queue' = Append(queue, s)
  /\ UNCHANGED made

\* lines 64-69: pexpect.spawn starts a process of its own, held in a local
PoolSpawn(s) ==
  /\ sess[s].at = "running" /\ sess[s].tr = 0
  /\ made' = made + 1
  /\ sess' = [sess EXCEPT ![s].tr = made + 1, ![s].open = TRUE]
  /\ UNCHANGED queue

\* a sendline and the expect after it, which matches; the thread knows nothing
\* of the coroutine that awaited it
PoolDrive(s) ==
  /\ sess[s].at = "running" /\ sess[s].open
  /\ sess' = [sess EXCEPT ![s].sent = TRUE,
                          ![s].late = @ \/ ~sess[s].awaiting]
  /\ UNCHANGED <<queue, made>>

\* an expect on a device that says nothing
PoolHang(s) ==
  /\ sess[s].at = "running" /\ sess[s].open
  /\ sess' = [sess EXCEPT ![s].at = "blocked"]
  /\ UNCHANGED <<queue, made>>

\* the function returns or raises, and its thread takes the next work item
Release(s, end) ==
  /\ made' = made
  /\ IF queue = <<>>
     THEN /\ sess' = [sess EXCEPT ![s].at = end, ![s].open = FALSE,
                                  ![s].tr = 0]
          /\ queue' = queue
     ELSE /\ sess' = [sess EXCEPT ![s].at = end, ![s].open = FALSE,
                                  ![s].tr = 0,
                                  ![Head(queue)].at = "running"]
          /\ queue' = Tail(queue)

\* the expect times out: the except clause closes the child and raises
PoolTimeout(s) == sess[s].at = "blocked" /\ Release(s, "failed")

\* lines 315-323: child.close() and return
PoolReturn(s) ==
  /\ sess[s].at = "running" /\ sess[s].open /\ sess[s].sent
  /\ Release(s, "done")

\* the awaiting coroutine is cancelled (a deadline of the caller's): a work
\* item still in the queue is dropped, a function that a thread is running
\* goes on running
PoolCancel(s) ==
  /\ sess[s].awaiting /\ sess[s].at \in {"queued", "running", "blocked"}
  /\ IF sess[s].at = "queued"
     THEN /\ sess' = [sess EXCEPT ![s].awaiting = FALSE, ![s].at = "cancelled"]
          /\ queue' = SelectSeq(queue, LAMBDA t : t # s)
     ELSE /\ sess' = [sess EXCEPT ![s].awaiting = FALSE]
          /\ queue' = queue
  /\ UNCHANGED made

NextPool ==
  \E s \in Sessions :
    /\ \/ PoolSubmit(s)
       \/ PoolSpawn(s)
       \/ PoolDrive(s)
       \/ PoolHang(s)
       \/ PoolTimeout(s)
       \/ PoolReturn(s)
       \/ PoolCancel(s)
    /\ UNCHANGED <<op, device_user, device_pass, device_enable_pass, commands,
                   pc, child, buffer, before, after, attempt, iteration, cmdIdx,
                   output_buffer, all_output, result, err, wire, dev, emitted,
                   tmo, sentAt, keys, trace, calls, tools>>

SpecPool == InitPool /\ [][NextPool]_vars

\* ============================================================== properties
HasEv(e) == \E i \in 1..Len(trace) : trace[i] = e

\* where in the history an event is, and where the lines of a kind were sent
At(e) == {i \in 1..Len(trace) : trace[i] = e}
Sends(xs) == {i \in 1..Len(trace) : trace[i].e = "send" /\ trace[i].x \in xs}

\* lines sent once the console is attached, and the lines that carry a command
DeviceLines == {"CR", "device_user", "device_pass", "enable", "device_enable_pass",
                "command", "configure terminal", "cfgcmd", "end", "ESCAPE"}
CommandLines == {"command", "configure terminal", "cfgcmd"}

\* what the caller of a failed run can read: the text of the exception
Delivered == <<result, RenderAll(err.buffer), RenderAll(err.before)>>

\* ----------------------------------------------------------------------- C1
\* C1: in every run of execute_via_console and execute_config_commands the
\* consoles> prompt is matched (after the console-server password, when one
\* was asked for) before the connect line is sent; both attach markers are
\* matched, in order, before anything is sent to the device; the device
\* username and password are sent before enable; and the enable exchange is
\* over before the first command line is sent.
C1_Ordering ==
  /\ \A j \in At(S("connect")) :
        \E i \in At(Ev("match", "CONS")) :
           /\ i < j
           /\ \A k \in At(S("cml_pass")) : k < i
           /\ \A k \in At(Ev("match", "PW")) :
                 k < i => \E m \in At(S("cml_pass")) : k < m /\ m < i
  /\ \A j \in Sends(DeviceLines) :
        \E i1 \in At(Ev("match", "CONN")), i2 \in At(Ev("match", "ESCM")) :
           i1 < i2 /\ i2 < j
  /\ \A j \in At(S("enable")) :
        /\ \A i \in At(S("device_user")) \cup At(S("device_pass")) : i < j
        /\ \A i \in At(Ev("match", "USER")) \cup At(Ev("match", "LOGIN")) :
              i < j => \E k \in At(S("device_user")) : i < k /\ k < j
  /\ \A j \in Sends(CommandLines) :
        \A i \in At(S("enable")) \cup At(S("device_enable_pass")) :
           /\ i < j
           /\ \E k \in (i + 1)..(j - 1) : trace[k].e = "enabled"

\* a command run that went through every stage and returned output
C1_Witness ==
  /\ op = "cmd" /\ pc = "done" /\ result # <<>>
  /\ HasEv(S("cml_pass")) /\ HasEv(S("device_user")) /\ HasEv(S("device_pass"))
  /\ HasEv(S("device_enable_pass")) /\ HasEv(S("command"))

\* ----------------------------------------------------------------------- C2
\* C2: whenever a run that spawned its child has ended, by an exception or
\* by returning, the child has been closed (close(force=True) in the except
\* clauses, close() before the return).
C2_ClosedAtEnd ==
  (pc \in {"done", "failed"} /\ child # "none") =>
     /\ child = "closed"
     /\ trace[Len(trace)] = Ev("close", "force")

\* a run that failed at an expect after the child was spawned
C2_Witness ==
  pc = "failed" /\ err.kind = "ConnectionError" /\ child = "closed" /\ err.at = "e236"

\* ----------------------------------------------------------------------- C3
\* C3: when nothing the child emits matches, execute_via_console fails with
\* TimeoutError (not RuntimeError, not ConnectionError) at whichever expect
\* it is waiting in, the first one included, and the exception carries all
\* that was emitted.
C3_TimeoutKind ==
  (op = "cmd" /\ pc = "failed" /\ err.cause = "timeout") =>
     /\ err.kind = "TimeoutError"
     /\ err.at = "e75" => err.before = emitted

\* ----------------------------------------------------------------------- C4
\* C4: when an expect of the Executing loop times out and the recovery probe
\* finds no prompt, the TimeoutError carries every chunk of output_buffer
\* (the text before each earlier pager or confirmation match, and the
\* partial buffer of the timeout).
C4_TimeoutCarriesChunks ==
  (op = "cmd" /\ pc = "failed" /\ err.cause = "timeout" /\ err.at \in {"e236", "e282"}) =>
     /\ err.kind = "TimeoutError"
     /\ \A i \in 1..Len(output_buffer) :
           Contains(err.before, output_buffer[i]) \/ Contains(err.buffer, output_buffer[i])

\* ----------------------------------------------------------------------- C5
\* C5: when the device shows a username prompt and no device credentials
\* were given, execute_via_console fails with an error of its own kind for
\* missing credentials (ValueError, not TimeoutError, ConnectionError or
\* RuntimeError), and neither a command nor a credential was sent.
C5_MissingCredentials ==
  (op = "cmd" /\ pc \in {"done", "failed"} /\ ~device_user /\ ~device_pass
   /\ (HasEv(Ev("match", "USER")) \/ HasEv(Ev("match", "LOGIN")))) =>
     /\ pc = "failed"
     /\ err.kind = "ValueError"
     /\ \A i \in 1..Len(trace) :
           trace[i].e = "send" =>
              trace[i].x \notin CommandLines \cup {"device_user", "device_pass",
                                                   "enable", "device_enable_pass"}

\* ----------------------------------------------------------------------- C6
\* A second specification for the Executing loop: one command run without
\* device credentials, let in by key, against a device that asks for no
\* confirmation and has more pages than the loop has iterations.
InitPaging ==
  /\ InitWith(max_iterations + 1, MaxConfirm)
  /\ op = "cmd" /\ ~device_user /\ ~device_pass /\ ~device_enable_pass

NextPaging ==
  \/ Read
  \/ CmdSpawn \/ CmdAuthKey \/ CmdAttachConnected \/ CmdAttachEscape
  \/ CmdPromptSeen \/ CmdReady
  \/ CmdExecPrompt \/ CmdExecPager \/ CmdExecTimeout \/ CmdRecovered
  \/ CmdDetached \/ CmdDetachTimeout
  \/ CmdTIMEOUT \/ CmdEOF

SpecPaging == InitPaging /\ [][NextPaging]_vars

PromptToks == {"UPROMPT", "PPROMPT", "CPROMPT", "SPROMPT"}
PagerToks == {"MORE", "MORE2"}
TextToks == {"ECHO", "SEG"}

IsText(tk) == tk.t \in TextToks

\* what the child emitted after the command line was sent
Stream == SubSeq(emitted, sentAt.emitted + 1, Len(emitted))

FirstPrompt(s) ==
  IF \E i \in 1..Len(s) : s[i].t \in PromptToks
  THEN CHOOSE i \in 1..Len(s) :
         s[i].t \in PromptToks /\ \A j \in 1..(i - 1) : s[j].t \notin PromptToks
  ELSE 0

\* during Executing the driver was given pages of text ended by pager
\* markers and then a prompt, nothing else, and no expect gave up
PagedReply ==
  /\ sentAt.unread = 0
  /\ FirstPrompt(Stream) > 0
  /\ \A i \in 1..(FirstPrompt(Stream) - 1) : Stream[i].t \in TextToks \cup PagerToks
  /\ tmo \cap {"e236", "e282"} = {}

Pagers == Cardinality({i \in 1..(FirstPrompt(Stream) - 1) : Stream[i].t \in PagerToks})

Segments == SelectSeq(SubSeq(Stream, 1, FirstPrompt(Stream) - 1), IsText)

Expected == IF Segments = <<>> THEN <<>> ELSE clean_output(RenderAll(Segments), command)

\* C6, as stated: for every N >= 0, when the child emits N pager markers and
\* then a prompt during Executing, exactly N spaces are sent and the text of
\* all N+1 segments, in order, is returned.
C6_EveryN ==
  (op = "cmd" /\ pc = "done" /\ PagedReply) =>
     /\ keys.space = Pagers
     /\ result = Expected

\* C6, amended: the same for every N below max_iterations.
C6_BelowMaxIterations ==
  (op = "cmd" /\ pc = "done" /\ PagedReply /\ Pagers < max_iterations) =>
     /\ keys.space = Pagers
     /\ result = Expected

\* the longest paged output that is returned whole
C6_Witness ==
  /\ op = "cmd" /\ pc = "done" /\ PagedReply
  /\ Pagers = max_iterations - 1 /\ keys.space = Pagers
  /\ result = Expected /\ result # <<>>

\* ----------------------------------------------------------------------- C7
Body == <<1000>>

IsPrefix(a, b) == Len(a) <= Len(b) /\ SubSeq(b, 1, Len(a)) = a

\* the child does not go away before the driver has sent exit
NotCutOff == dev.closed => HasEv(S("exit"))

ScriptToPrompt == <<Tok("PW"), Tok("CONS"), Tok("CONN"), Tok("ESCM"), Tok("PPROMPT")>>
ScriptReply == <<Echo(0), Seg(0), Tok("PPROMPT")>>

\* C7, as stated: against a child that emits the password prompt, consoles>,
\* both attach markers, a single privileged prompt and, after the command
\* line, the echo, the body and a prompt, execute_via_console does not raise
\* and returns the body without the echo and the prompt.
C7_SinglePrompt ==
  (/\ op = "cmd" /\ pc \in {"done", "failed"} /\ NotCutOff
   /\ IF HasEv(S("command"))
      THEN IsPrefix(ScriptToPrompt \o ScriptReply, emitted)
      ELSE emitted = ScriptToPrompt) =>
     (pc = "done" /\ result = Body)

\* C7, amended: the same against a child that emits two privileged prompts
\* before the command line, one for prompt stabilization and one for the
\* carriage return of Ready, and whose reply arrives before an expect of the
\* Executing loop gives up.
C7_EndToEnd ==
  (/\ op = "cmd" /\ pc \in {"done", "failed"} /\ NotCutOff
   /\ IsPrefix(ScriptToPrompt \o <<Tok("PPROMPT")>> \o ScriptReply, emitted)
   /\ sentAt = [emitted |-> Len(ScriptToPrompt) + 1, unread |-> 0]
   /\ tmo \cap {"e236", "e282"} = {}) =>
     (pc = "done" /\ result = Body)

C7_Witness ==
  /\ op = "cmd" /\ pc = "done" /\ result = Body /\ HasEv(S("exit"))
  /\ IsPrefix(ScriptToPrompt \o <<Tok("PPROMPT")>> \o ScriptReply, emitted)
  /\ sentAt = [emitted |-> Len(ScriptToPrompt) + 1, unread |-> 0]
  /\ tmo = {}

\* ----------------------------------------------------------------------- C8
Label(i) == CmdText(commands[i]) \o <<58, SP>>

C9_ExitBeforeEscape ==
  (op = "cfg" /\ HasEv(S("ESCAPE"))) =>
     /\ Cardinality(At(S("end"))) = 1
     /\ \A i \in At(S("end")) :
           /\ \A j \in At(S("ESCAPE")) : i < j
           /\ \A k \in Sends({"cfgcmd"}) : k < i
     /\ Cardinality(Sends({"cfgcmd"})) = Len(commands)
     /\ pc = "c551" => after = Tok("PPROMPT")

C9_Witness ==
  op = "cfg" /\ pc = "c551" /\ Len(commands) = 2 /\ after = Tok("PPROMPT") /\ buffer # <<>>

\* ---------------------------------------------------------------------- C10
\* C10: when a batch fails at its k-th command, the caller still gets the
\* entries of the commands 1..k-1.
C10_PriorEntriesDelivered ==
  (op = "cfg" /\ pc = "failed" /\ err.at = "c528") =>
     \A i \in 1..(cmdIdx - 1) :
        \E d \in 1..Len(Delivered) : Contains(Delivered[d], all_output[i + 1])

\* ---------------------------------------------------------------------- C11
\* the commands of the batch whose text is found in what the caller receives
Named == {i \in 1..Len(commands) :
            \E d \in 1..Len(Delivered) : Contains(Delivered[d], CmdText(commands[i]))}

\* C11: when a batch fails at its k-th command, what the caller receives
\* names the k-th command and no other.
C11_FailureNamesIndex ==
  (op = "cfg" /\ pc = "failed" /\ err.at = "c528") => Named = {cmdIdx}

\* ---------------------------------------------------------------------- C12
\* the expects in the order of the source, the two ends of a run last
Order == <<"spawn",
           "e75", "e85", "e100", "e104", "e139", "e159", "e184", "e186",
           "e195", "e208", "e211", "e216", "e236", "e282", "e310",
           "c413", "c423", "c437", "c440", "c465", "c479", "c491", "c493",
           "c499", "c508", "c511", "c516", "c528", "c538", "c551",
           "done", "failed">>

Pos(p) == CHOOSE i \in 1..Len(Order) : Order[i] = p

\* the rounds a loop has left at p: range(3), range(max_iterations) and
\* enumerate(commands, 1)
Left(p, a, i, k) ==
  CASE p \in {"e159", "c479"} -> RetryAttempts - a
    [] p = "e236" -> max_iterations - i
    [] p = "c528" -> Len(commands) - k
    [] OTHER -> 0

\* a step moves on to a later expect, or uses up a round of the loop it is in,
\* or reads some of what the transport holds
Advances ==
  \/ Pos(pc') > Pos(pc)
  \/ /\ pc' = pc
     /\ Left(pc, attempt', iteration', cmdIdx') < Left(pc, attempt, iteration, cmdIdx)
  \/ /\ pc' = pc
     /\ Left(pc, attempt', iteration', cmdIdx') = Left(pc, attempt, iteration, cmdIdx)
     /\ Len(wire') < Len(wire)

Finished == pc \in {"done", "failed"}

OwnTransport ==
  \A s, t \in Sessions : (s # t /\ sess[s].tr # 0) => sess[s].tr # sess[t].tr

Concurrent == {s \in Sessions : sess[s].at \in {"queued", "running", "blocked"}}

Blocked == {s \in Sessions : sess[s].at = "blocked"}

\* C13 as stated: however many invocations are in flight, each has a child of
\* its own and none waits for a thread while another is blocked in an expect.
C13_Isolated ==
  /\ OwnTransport
  /\ \A s \in Sessions : sess[s].at = "queued" => Blocked = {}

\* C13: each invocation has a child of its own, and while no more invocations
\* are in flight than the default executor has threads, none waits for a
\* thread while another is blocked in an expect.
C13_IsolatedWithinPool ==
  /\ OwnTransport
  /\ \A s \in Sessions :
       (sess[s].at = "queued" /\ Blocked # {}) => Cardinality(Concurrent) > Workers

\* as many invocations in flight as there are threads, one blocked in an
\* expect while another, started after it, has sent its lines
C13_Witness ==
  /\ Cardinality(Concurrent) = Workers
  /\ \E s, t \in Sessions :
       /\ sess[s].at = "blocked"
       /\ sess[t].at = "running" /\ sess[t].sent /\ sess[t].tr > sess[s].tr

\* ---------------------------------------------------------------------- C14
\* C14: once the coroutine awaiting an invocation has been cancelled, the
\* invocation sends nothing more to its device.
C14_CancelStopsDriving == \A s \in Sessions : ~sess[s].late

\* ---------------------------------------------------------------------- C15
\* the run failed because a marker awaited after "connect" did not come
AttachTimedOut ==
  /\ pc = "failed" /\ err.cause = "timeout"
  /\ err.at \in {"e100", "e104", "c437", "c440"}

C16_ClosedIsConnectionError ==
  (pc = "failed" /\ err.cause \in {"eof", "spawn"}) => err.kind = "ConnectionError"

\* ---------------------------------------------------------------------- C17
\* an enable secret was given, and the run is over after an expect that
\* followed "enable" or the enable secret had timed out
EnableExpects == {"e208", "e211", "c508", "c511"}
EnableTimedOut ==
  device_enable_pass /\ Finished /\ tmo \cap EnableExpects # {}

\* C17 as stated: such a run does not fail, the command was sent and its
\* transcript is returned.
C17_EnableFailureIsSoft ==
  EnableTimedOut => (pc = "done" /\ Sends(CommandLines) # {})

\* C17: such a run fails with TimeoutError at that expect, and no command was
\* sent.
C17_EnableFailureIsFatal ==
  EnableTimedOut =>
     /\ pc = "failed"
     /\ err.kind = "TimeoutError" /\ err.at \in EnableExpects
     /\ Sends(CommandLines) = {}
     /\ result = <<>>

\* the device asked for the enable secret again after it was sent
C17_Witness ==
  /\ EnableTimedOut /\ op = "cmd" /\ err.at = "e211"
  /\ HasEv(S("device_enable_pass")) /\ buffer = <<Tok("PW")>>

\* ---------------------------------------------------------------------- C18
\* the Executing loop used up its range
Exhausted == HasEv(Ev("exhausted", "e236"))

\* the first n pager markers of s and what came before them
Pages(s, n) ==
  LET pm == {i \in 1..Len(s) : s[i].t \in PagerToks}
  IN IF n = 0 THEN <<>>
     ELSE IF Cardinality(pm) < n THEN s
     ELSE SubSeq(s, 1, CHOOSE i \in pm : Cardinality({x \in pm : x <= i}) = n)

\* the text of the pages the loop went through
Accumulated == SelectSeq(Pages(Stream, max_iterations), IsText)

\* C18: when every iteration of the Executing loop has matched a pager marker,
\* the run does not fail (the remote side staying open): the escape sequence
\* is sent, and the run returns the text of all max_iterations pages.
C18_ExhaustionReturns ==
  (Exhausted /\ sentAt.unread = 0 /\ NotCutOff) =>
     /\ pc \in {"e310", "done"}
     /\ err = NoErr
     /\ iteration = max_iterations /\ keys.space = max_iterations
     /\ Len(output_buffer) = max_iterations
     /\ Cardinality(At(S("ESCAPE"))) = 1
     /\ pc = "done" => result = clean_output(RenderAll(Accumulated), command)

C18_Witness ==
  /\ Exhausted /\ sentAt.unread = 0 /\ NotCutOff /\ pc = "done"
  /\ Len(Accumulated) >= max_iterations
  /\ result = clean_output(RenderAll(Accumulated), command) /\ result # <<>>

\* ---------------------------------------------------------------------- C19
\* what a run returns when the same pages are followed by a prompt (C6): the
\* caller is handed a string and nothing else
PromptEnded == clean_output(RenderAll(Accumulated), command)

\* C19: what a run returns after the Executing loop used up its range can be
\* told from what a run returns whose last page ended with a prompt.
C19_TruncationMarked ==
  (Exhausted /\ sentAt.unread = 0 /\ pc = "done") => result # PromptEnded

\* ---------------------------------------------------------------------- C20
\* the text x is in the exception's message
Carried(x) == x = <<>> \/ err.buffer = x \/ err.before = x

\* C20: whatever its kind, an error raised once the child exists carries what
\* the child held at that moment: child.buffer, and, when an expect gave up
\* (timeout or EOF), what it had read (child.before).
C20_ErrorsCarryBuffer ==
  (pc = "failed" /\ child # "none") =>
     /\ Carried(buffer)
     /\ after \in {TIMEOUT, EOF} => Carried(before)

\* ---------------------------------------------------------------------- C21
\* the run has something to return
Captured == IF op = "cmd" THEN output_buffer # <<>> ELSE all_output # <<>>

\* C21: a run that has captured a transcript and got as far as the escape
\* sequence returns it: whatever happens while it waits for the console
\* server's prompt, it does not fail.
C21_DetachNeverFails ==
  (Finished /\ HasEv(S("ESCAPE")) /\ Captured) => (pc = "done" /\ result # <<>>)

\* ---------------------------------------------------------------------- C22
\* A specification for _clean_output by itself: a raw text of up to MaxText
\* characters (line ends, a space, the escape character, a bracket and the
\* two letters of the command) is cleaned, and the result is cleaned again.
Alphabet == {LF, CR, SP, ESC, LBRACK, 115, 118}
Texts == UNION {[1..n -> Alphabet] : n \in 0..MaxText}

\* the variables of a session
run == <<op, device_user, device_pass, device_enable_pass, commands, pc, child,
         buffer, before, after, loops, outs, err, wire, dev, emitted, tmo, sentAt,
         trace>>

\* the session is not started
Idle ==
  /\ InitSession(MaxPages, 0)
  /\ op = "cmd" /\ ~device_user /\ ~device_pass /\ ~device_enable_pass

InitClean ==
  /\ Idle
  /\ given \in {[f |-> "_clean_output", output |-> x, command |-> command] : x \in Texts}
  /\ got = <<>>

\* _clean_output(output, command), then _clean_output of what it returned
CleanCall ==
  /\ Len(got) < 2
  /\ got' = Append(got, clean_output(IF got = <<>> THEN given.output ELSE got[Len(got)],
                                     given.command))
  /\ UNCHANGED <<given, run, pool, tools>>

SpecClean == InitClean /\ [][CleanCall]_vars

FirstLine(s) == SplitLines(s, <<>>)[1]

\* C22 as stated: cleaning a cleaned text changes nothing.
C22_Idempotent == Len(got) = 2 => got[2] = got[1]

\* C22: cleaning a cleaned text changes nothing, unless the cleaned text
\* begins with a line that holds the command (the second call takes that line
\* for the echo) or still holds an escape character (a sequence taken out may
\* leave a new one behind).
C22_IdempotentWithoutEcho ==
  (Len(got) = 2 /\ ~Contains(FirstLine(got[1]), given.command)
                /\ ~Contains(got[1], <<ESC>>)) => got[2] = got[1]

\* the echo was dropped, the text has lines with blanks to strip, and the
\* second call changed nothing
C22_Witness ==
  /\ Len(got) = 2 /\ got[2] = got[1] /\ got[1] # <<>>
  /\ Contains(given.output, given.command)
  /\ ~Contains(got[1], given.command)
  /\ Len(got[1]) < Len(given.output) - Len(given.command)

\* ---------------------------------------------------------------------- C23
\* A specification for the prompt patterns of lines 129-135 and the mode test
\* of lines 198-202 by themselves, on prompt examples of the four modes.
HostChars == {82, 49, 45}
Hosts == UNION {[1..n -> HostChars] : n \in 0..MaxHost}

Modes == {"UserExec", "PrivilegedExec", "ConfigGlobal", "ConfigSub"}

\* (config) and (config-if)
ConfigText == <<40, 99, 111, 110, 102, 105, 103, 41>>
ConfigIfText == <<40, 99, 111, 110, 102, 105, 103, 45, 105, 102, 41>>

\* the prompt a device shows in mode m; without a hostname there is no
\* parenthesis either
Example(h, m, pad) ==
  h \o (CASE m = "UserExec" -> <<62>>
          [] m = "PrivilegedExec" -> <<35>>
          [] m = "ConfigGlobal" -> ConfigText \o <<35>>
          [] m = "ConfigSub" -> ConfigIfText \o <<35>>) \o pad

Examples ==
  {[f |-> "prompt", mode |-> m, text |-> Example(h, m, pad)] :
     h \in Hosts \ {<<>>}, m \in Modes, pad \in {<<>>, <<SP>>}}
  \cup {[f |-> "prompt", mode |-> m, text |-> Example(<<>>, m, pad)] :
          m \in {"UserExec", "PrivilegedExec"}, pad \in {<<>>, <<SP>>}}

\* [\w\-\.] and \s
HostChar(c) ==
  \/ c \in 48..57 \/ c \in 65..90 \/ c \in 97..122
  \/ c \in {95, 45, 46}
ReSpace(c) == c \in {9, 10, 11, 12, 13, 32}

\* [>#]\s*$ at s[k]
TailAt(s, k) ==
  /\ k \in 1..Len(s) /\ s[k] \in {62, 35}
  /\ \A j \in (k + 1)..Len(s) : ReSpace(s[j])

\* \([^\)]+\) from s[k] to s[e]
GroupAt(s, k, e) ==
  /\ k \in 1..Len(s) /\ e \in (k + 2)..Len(s)
  /\ s[k] = 40 /\ s[e] = 41
  /\ \A j \in (k + 1)..(e - 1) : s[j] # 41

\* cisco_prompt and simple_prompt matching from s[i] to the end
CiscoAt(s, i) ==
  \E j \in i..Len(s) :
    /\ \A k \in i..j : HostChar(s[k])
    /\ \/ TailAt(s, j + 1)
       \/ \E e \in (j + 1)..Len(s) : GroupAt(s, j + 1, e) /\ TailAt(s, e + 1)
SimpleAt(s, i) == TailAt(s, i)
CombinedAt(s, i) == CiscoAt(s, i) \/ SimpleAt(s, i)

\* re.finditer(combined_prompt, s): a match runs to the end of s, so there is
\* one, from the leftmost place a match starts, or none
Starts(s) == {i \in 1..Len(s) : CombinedAt(s, i)}
FirstStart(s) == CHOOSE i \in Starts(s) : \A j \in Starts(s) : i <= j
Found1(s) == IF Starts(s) = {} THEN <<>> ELSE <<SubSeq(s, FirstStart(s), Len(s))>>

\* lines 198-202: the one thing the driver derives from the prompt
in_enable_mode(current_prompt) ==
  current_prompt # <<>> /\ current_prompt[Len(current_prompt)] = 35

\* lines 205-216: with in_enable_mode the driver sends no "enable" and goes on
\* to send the command as it does at a privileged prompt
ModeOf(current_prompt) ==
  IF in_enable_mode(current_prompt) THEN "PrivilegedExec" ELSE "UserExec"

InitPrompt ==
  /\ Idle
  /\ given \in Examples
  /\ got = <<>>

PromptCall ==
  /\ got = <<>>
  /\ LET ms == Found1(given.text)
     IN got' = <<[n |-> Len(ms),
                  mode |-> IF ms = <<>> THEN "none" ELSE ModeOf(Strip(ms[1]))]>>
  /\ UNCHANGED <<given, run, pool, tools>>

SpecPrompt == InitPrompt /\ [][PromptCall]_vars

\* C23: the pattern matches a prompt example of each mode once, and the mode
\* derived from the matched text is the mode of the example.
C23_ModeOfPrompt ==
  got # <<>> => (got[1].n = 1 /\ got[1].mode = given.mode)

\* ------------------------------------------------------------ the command tool
\* tools/auth.py and tools/execution.py. A caller is identified with the
\* context it gives initialize_client (url, username, password): client c is
\* the client built from caller c's. The API's answers to get_console_key are
\* numbered in the order it gives them.
ParseOutcomes == {"parsed", "no_parser", "parser_raised", "import_error"}

RECURSIVE Invoked(_)
\* the invocations made so far by the callers of cs
Invoked(cs) ==
  IF cs = {} THEN 0
  ELSE LET c == CHOOSE x \in cs : TRUE IN inv[c].n + Invoked(cs \ {c})

\* initialize_client: the module's client is replaced by one built from the
\* caller's url and credentials as soon as it is constructed, before it
\* authenticates; the environment is written after the authentication
InitOutcomes == {"success", "construct_raises", "authenticate_raises"}

initialize_client(c, outcome) ==
  /\ cml_client' = IF outcome = "construct_raises" THEN cml_client ELSE c
  /\ environ' = IF outcome = "success" THEN c ELSE environ

\* bound: a call is followed while an invocation can still be made, nothing
\* reads the client after the last one
ToolInitialize(c) ==
  /\ inv[c].at \in {"idle", "returned"}
  /\ Invoked(Callers) < MaxInvocations
  /\ \E outcome \in InitOutcomes :
       /\ initialize_client(c, outcome)
       /\ inv' = [inv EXCEPT ![c].init = @ \/ outcome = "success"]
  /\ UNCHANGED issued

\* execute_device_command up to its first await: client = the module's client
ToolInvoke(c) ==
  /\ inv[c].at \in {"idle", "returned"}
  /\ inv[c].init
  /\ Invoked(Callers) < MaxInvocations
  /\ inv' = [inv EXCEPT ![c] =
              [NewInv EXCEPT !.at = "find", !.init = TRUE, !.n = inv[c].n + 1,
                             !.client = cml_client,
                             !.past = inv[c].past \o inv[c].connects]]
  /\ UNCHANGED <<cml_client, environ, issued>>

\* the result of lines 66-69, 83-86, 89-92 and 168-173
ErrorResult == [status |-> "error", raw_output |-> FALSE, parser_used |-> FALSE,
                parsed_output |-> "none"]

\* find_node_by_label returns the node, or nothing
ToolFind(c) ==
  /\ inv[c].at = "find"
  /\ \/ inv' = [inv EXCEPT ![c].at = "key"]
     \/ inv' = [inv EXCEPT ![c].at = "returned", ![c].ret = ErrorResult]
  /\ UNCHANGED <<cml_client, environ, issued>>

\* variant: the key of the caller's last session is kept and used again
ToolKeyCached(c) ==
  /\ inv[c].at = "key"
  /\ \/ /\ issued' = IF inv[c].past = <<>> THEN issued + 1 ELSE issued
        /\ inv' = [inv EXCEPT ![c].at = "console",
                              ![c].console_key = IF inv[c].past = <<>> THEN issued + 1
                                                 ELSE inv[c].past[Len(inv[c].past)]]
     \/ /\ inv' = [inv EXCEPT ![c].at = "returned", ![c].ret = ErrorResult]
        /\ UNCHANGED issued
  /\ UNCHANGED <<cml_client, environ>>

\* get_console_key asks the API each time it is called: it answers with a key,
\* with nothing, or the request fails
ToolKey(c) ==
  /\ inv[c].at = "key"
  /\ \/ /\ issued' = issued + 1
        /\ inv' = [inv EXCEPT ![c].at = "console", ![c].console_key = issued + 1]
     \/ /\ inv' = [inv EXCEPT ![c].at = "returned", ![c].ret = ErrorResult]
        /\ UNCHANGED issued
  /\ UNCHANGED <<cml_client, environ>>

\* PyATSHelper.parse_output: what it returns for each thing that can happen
\* to the parser; it raises nothing
parse_output(outcome) ==
  IF outcome = "parsed" THEN [parsed |-> TRUE] ELSE [parsed |-> FALSE]

\* lines 131-162: the result of a run that returned raw_output
ToolResult(use_parser, cisco, outcome) ==
  IF use_parser /\ cisco
  THEN [status |-> "ok", raw_output |-> TRUE, parser_used |-> TRUE,
        parsed_output |-> parse_output(outcome)]
  ELSE [status |-> "ok", raw_output |-> TRUE, parser_used |-> FALSE,
        parsed_output |-> "none"]

\* execute_via_console with node_uuid = console_key, host and credentials of
\* the client taken at line 61 (use_parser and the device type are arguments
\* of the invocation, read only here): the session fails before it sends connect,
\* or sends `connect <console_key>` once and fails later or returns the
\* transcript, which is then parsed
ToolConsole(c) ==
  /\ inv[c].at = "console"
  /\ \/ inv' = [inv EXCEPT ![c].at = "returned", ![c].ret = ErrorResult]
     \/ inv' = [inv EXCEPT ![c].at = "returned", ![c].ret = ErrorResult,
                           ![c].connects = <<inv[c].console_key>>,
                           ![c].ran = inv[c].client]
     \/ \E use_parser \in BOOLEAN, cisco \in BOOLEAN, outcome \in ParseOutcomes :
          inv' = [inv EXCEPT ![c].at = "returned",
                             ![c].connects = <<inv[c].console_key>>,
                             ![c].ran = inv[c].client,
                             ![c].raw_output = TRUE,
                             ![c].parsed = IF use_parser /\ cisco THEN outcome
                                           ELSE "none",
                             ![c].ret = ToolResult(use_parser, cisco, outcome)]
  /\ UNCHANGED <<cml_client, environ, issued>>

NextTool ==
  \E c \in Callers :
    /\ \/ ToolInitialize(c)
       \/ ToolInvoke(c)
       \/ ToolFind(c)
       \/ ToolKey(c)
       \/ ToolConsole(c)
    /\ UNCHANGED <<run, pool, calls>>

InitTool == Idle /\ given = NoArgs /\ got = <<>>

SpecTool == InitTool /\ [][NextTool]_vars

\* ---------------------------------------------------------------------- C24
\* the keys caller c's sessions have sent with connect, oldest first
Connected(c) == inv[c].past \o inv[c].connects

\* C24: a session sends connect at most once, with the key its own invocation
\* got from the API, and no key is sent with connect by two sessions.
C24_SecretConsumedOnce ==
  /\ \A c \in Callers :
       /\ Len(inv[c].connects) <= 1
       /\ inv[c].connects # <<>> =>
            /\ inv[c].console_key # 0
            /\ inv[c].connects[1] = inv[c].console_key
  /\ \A c, d \in Callers :
       \A i \in DOMAIN Connected(c), j \in DOMAIN Connected(d) :
         (c # d \/ i # j) => Connected(c)[i] # Connected(d)[j]

\* a caller's second invocation has attached with a key, as its first had
C24_Witness ==
  \E c \in Callers : inv[c].past # <<>> /\ inv[c].connects # <<>>

\* ---------------------------------------------------------------------- C25
\* the parser was called for caller c's transcript and gave no structured data
ParseFailed(c) ==
  inv[c].raw_output /\ inv[c].parsed \in ParseOutcomes \ {"parsed"}

\* C25: when the parsing layer fails, the tool still returns the transcript
\* and reports that no parser was used.
C25_ParseFailureKeepsTranscript ==
  \A c \in Callers :
    ParseFailed(c) =>
      /\ inv[c].ret.status = "ok"
      /\ inv[c].ret.raw_output
      /\ ~inv[c].ret.parser_used

\* ---------------------------------------------------------------------- C26
\* C26: a session opened for a caller's operation is opened on the host and
\* with the credentials of the context that caller initialized.
C26_OwnContext ==
  \A c \in Callers : inv[c].ran # 0 => inv[c].ran = c

\* ---------------------------------------------------------------------- C27
\* pyats_helper.py: the node definitions and the OS of each
DEVICE_TYPE_MAPPING ==
  [iosv |-> "ios", iosvl2 |-> "ios", csr1000v |-> "iosxe", iosxe |-> "iosxe",
   nxosv |-> "nxos", nxosv9000 |-> "nxos", asav |-> "asa", iosxrv |-> "iosxr",
   iosxrv9000 |-> "iosxr"]

\* tools/protocol_validation.py
PROTOCOL_COMMANDS ==
  [ospf |-> [neighbors |-> "show ip ospf neighbor", routes |-> "show ip route ospf",
             state |-> "show ip ospf", interface |-> "show ip ospf interface",
             database |-> "show ip ospf database"],
   bgp |-> [neighbors |-> "show ip bgp summary", routes |-> "show ip route bgp",
            state |-> "show ip bgp", peers |-> "show ip bgp neighbors"],
   eigrp |-> [neighbors |-> "show ip eigrp neighbors", routes |-> "show ip route eigrp",
              topology |-> "show ip eigrp topology",
              interfaces |-> "show ip eigrp interfaces"],
   rip |-> [neighbors |-> "show ip rip neighbors", routes |-> "show ip route rip",
            database |-> "show ip rip database"],
   stp |-> [state |-> "show spanning-tree", root |-> "show spanning-tree root",
            bridge |-> "show spanning-tree bridge",
            summary |-> "show spanning-tree summary"],
   vtp |-> [status |-> "show vtp status", counters |-> "show vtp counters"],
   hsrp |-> [brief |-> "show standby brief", state |-> "show standby"],
   vrrp |-> [brief |-> "show vrrp brief", state |-> "show vrrp"]]

ValidationTypes == UNION {DOMAIN PROTOCOL_COMMANDS[p] : p \in DOMAIN PROTOCOL_COMMANDS}

\* validate_protocols up to the command it issues: the device is asked
\* nothing about its type
ProtocolCommand(protocol, validation_type) ==
  IF protocol \notin DOMAIN PROTOCOL_COMMANDS THEN "error"
  ELSE IF validation_type \notin DOMAIN PROTOCOL_COMMANDS[protocol] THEN "error"
  ELSE PROTOCOL_COMMANDS[protocol][validation_type]

\* validate_interfaces up to the command it issues, for all interfaces or
\* for one
InterfaceCommand(interface) ==
  IF interface THEN "show interfaces <interface>" ELSE "show interfaces"

InitCommand ==
  /\ Idle
  /\ given \in
       [f : {"validate_protocols"}, device_type : DOMAIN DEVICE_TYPE_MAPPING,
        protocol : DOMAIN PROTOCOL_COMMANDS \cup {"isis"},
        validation_type : ValidationTypes, interface : {FALSE}]
       \cup
       [f : {"validate_interfaces"}, device_type : DOMAIN DEVICE_TYPE_MAPPING,
        protocol : {"none"}, validation_type : {"none"}, interface : BOOLEAN]
  /\ got = <<>>

ProtocolCall ==
  /\ given.f = "validate_protocols"
  /\ got = <<>>
  /\ got' = <<ProtocolCommand(given.protocol, given.validation_type)>>
  /\ UNCHANGED <<given, run, pool, tools>>

InterfaceCall ==
  /\ given.f = "validate_interfaces"
  /\ got = <<>>
  /\ got' = <<InterfaceCommand(given.interface)>>
  /\ UNCHANGED <<given, run, pool, tools>>

NextCommand == ProtocolCall \/ InterfaceCall

SpecCommand == InitCommand /\ [][NextCommand]_vars

\* the family of the device validated
Family == DEVICE_TYPE_MAPPING[given.device_type]

\* C27: BGP neighbor validation issues `show bgp summary` on an ASA and
\* `show ip bgp summary` on IOS; interface validation issues `show interface`
\* on an ASA and `show interfaces` on IOS.
C27_CommandByFamily ==
  got # <<>> =>
    /\ (given.f = "validate_protocols" /\ given.protocol = "bgp"
        /\ given.validation_type = "neighbors") =>
         /\ Family = "asa" => got[1] = "show bgp summary"
         /\ Family \in {"ios", "iosxe"} => got[1] = "show ip bgp summary"
    /\ (given.f = "validate_interfaces" /\ ~given.interface) =>
         /\ Family = "asa" => got[1] = "show interface"
         /\ Family \in {"ios", "iosxe"} => got[1] = "show interfaces"

\* ---------------------------------------------------------------------- C28
\* bound: the lines of a ping transcript
MaxLines == 3
\* bound: the packets of a ping
MaxPing == 2

\* what the device prints as "Success rate is <pct> percent"
Percent(received, sent) == (received * 100) \div sent

\* The lines of a ping transcript, by what the patterns of parse_ping_output
\* see in them: a line "Success rate is <pct> percent (<received>/<sent>)",
\* the same line cut before its counts, a line of round-trip times, any other
PingLines ==
  {[k |-> "rate", pct |-> Percent(r, n), received |-> r, sent |-> n] :
     r \in 0..MaxPing, n \in {MaxPing}}
  \cup {[k |-> "cut", pct |-> 100, received |-> 0, sent |-> 0],
        [k |-> "rtt", pct |-> 0, received |-> 0, sent |-> 0],
        [k |-> "other", pct |-> 0, received |-> 0, sent |-> 0]}

Transcripts == UNION {[1..n -> PingLines] : n \in 0..MaxLines}

RECURSIVE SearchRate(_, _)
\* re.search of the success-rate pattern from line i on: the first line it
\* matches, 0 when it matches none
SearchRate(output, i) ==
  IF i > Len(output) THEN 0
  ELSE IF output[i].k = "rate" THEN i
  ELSE SearchRate(output, i + 1)

\* variant: a transcript with a success-rate line is a success
any_rate_is_success(output) ==
  LET success_match == SearchRate(output, 1)
  IN IF success_match # 0
     THEN [success |-> TRUE,
           packets_sent |-> output[success_match].sent,
           packets_received |-> output[success_match].received,
           packet_loss_percent |-> 100 - output[success_match].pct]
     ELSE [success |-> FALSE, packets_sent |-> 0, packets_received |-> 0,
           packet_loss_percent |-> 100]

\* utils.parse_ping_output
parse_ping_output(output) ==
  LET success_match == SearchRate(output, 1)
  IN IF success_match # 0
     THEN [success |-> output[success_match].pct > 0,
           packets_sent |-> output[success_match].sent,
           packets_received |-> output[success_match].received,
           packet_loss_percent |-> 100 - output[success_match].pct]
     ELSE [success |-> FALSE, packets_sent |-> 0, packets_received |-> 0,
           packet_loss_percent |-> 100]

\* utils.validate_reachability_result
validate_reachability_result(ping_result, expected_success) ==
  [passed |-> ping_result.success = expected_success,
   expected_success |-> expected_success,
   actual_success |-> ping_result.success]

\* the structured data of a parser: with its success_rate_percent, without
\* one ("absent"), or no data at all ("none")
PingData ==
  {[d |-> "none", pct |-> 0], [d |-> "absent", pct |-> 0]}
  \cup {[d |-> "rate", pct |-> Percent(r, MaxPing)] : r \in 0..MaxPing}

\* reachability._validate_ping_result
validate_ping_result(raw_output, parsed, data, expected_success) ==
  LET reachable ==
        IF parsed /\ data.d # "none"
        THEN (IF data.d = "absent" THEN 0 ELSE data.pct) > 0
        ELSE parse_ping_output(raw_output).success
      validation == validate_reachability_result([success |-> reachable],
                                                 expected_success)
  IN [status |-> IF validation.passed THEN "pass" ELSE "fail",
      reachable |-> reachable,
      expected_reachable |-> expected_success]

InitPing ==
  /\ Idle
  /\ given \in [f : {"_validate_ping_result"}, raw_output : Transcripts,
                parsed : BOOLEAN, data : PingData, expected_success : BOOLEAN]
  /\ got = <<>>

PingCall ==
  /\ got = <<>>
  /\ got' = <<validate_ping_result(given.raw_output, given.parsed, given.data,
                                   given.expected_success)>>
  /\ UNCHANGED <<given, run, pool, tools>>

SpecPing == InitPing /\ [][PingCall]_vars

\* the validation reads the transcript, not a parser's data
FromTranscript == ~(given.parsed /\ given.data.d # "none")

\* the success-rate lines of the transcript
RateLines == {i \in DOMAIN given.raw_output : given.raw_output[i].k = "rate"}

\* the success rate parsed from the transcript is more than 0: the first of
\* its success-rate lines says so
RateAboveZero ==
  \E i \in RateLines :
    /\ \A j \in RateLines : i <= j
    /\ given.raw_output[i].pct > 0

\* C28: the ping is reported reachable if and only if the success rate parsed
\* is more than 0 (never without a success-rate line), and the validation
\* passes if and only if that equals expected_success.
C28_ReachableIffRate ==
  got # <<>> =>
    /\ FromTranscript => (got[1].reachable <=> RateAboveZero)
    /\ ~FromTranscript =>
         (got[1].reachable <=> (given.data.d = "rate" /\ given.data.pct > 0))
    /\ (got[1].status = "pass") <=> (got[1].reachable = given.expected_success)
    /\ got[1].expected_reachable = given.expected_success

\* an unreachable destination that was expected to be so: a transcript whose
\* success rate is 0, a result that passes
C28_Witness ==
  /\ got # <<>>
  /\ FromTranscript
  /\ RateLines # {}
  /\ ~given.expected_success
  /\ ~got[1].reachable
  /\ got[1].status = "pass"

\* ---------------------------------------------------------------------- C29
\* C29: when the command line is sent, nothing the device emitted before it
\* is still unread, and a run that succeeds does not return a transcript
\* without the output the device emitted before its next prompt.
C29_NoStalePrompt ==
  (op = "cmd" /\ HasEv(S("command"))) =>
    /\ sentAt.unread = 0
    /\ (/\ pc = "done"
        /\ FirstPrompt(Stream) > 0
        /\ \E i \in 1..(FirstPrompt(Stream) - 1) : Stream[i].t = "SEG") =>
          result # <<>>

\* ---------------------------------------------------------------------- C30
\* A third specification for prompt stabilization: a session run without
\* device credentials against a device that may answer a carriage return
\* with the last character of its prompt only, followed up to the line that
\* comes after the prompt is found.
InitRetry ==
  /\ InitDevice([Dev0 EXCEPT !.partial = TRUE])
  /\ given = NoArgs
  /\ got = <<>>
  /\ ~device_user /\ ~device_pass /\ ~device_enable_pass

NextRetry ==
  \/ Read
  \/ CmdSpawn \/ CmdAuthKey \/ CmdAttachConnected \/ CmdAttachEscape
  \/ CmdPromptTimeout \/ CmdPromptLogin \/ CmdPromptPassword \/ CmdPromptSeen
  \/ CmdRetrySeen \/ CmdRetryTimeout
  \/ CmdReady
  \/ CmdTIMEOUT \/ CmdEOF
  \/ CfgSpawn \/ CfgAuthKey \/ CfgAttachConnected \/ CfgAttachEscape
  \/ CfgPromptTimeout \/ CfgPromptLogin \/ CfgPromptPassword \/ CfgPromptSeen
  \/ CfgRetrySeen \/ CfgRetryTimeout
  \/ CfgTIMEOUT \/ CfgEOF

SpecRetry == InitRetry /\ [][NextRetry]_vars

\* the last of the retries has timed out and the session has failed there
RetriesFailed ==
  /\ pc = "failed"
  /\ err.at \in {"e159", "c479"}
  /\ err.cause \in {"timeout", "attr"}

\* C30: the driver retries at most 3 times, and after the last retry has
\* timed out the session fails only if what was read does not end like a
\* prompt.
C30_RetryThenHeuristic ==
  /\ attempt < RetryAttempts
  /\ RetriesFailed => ~LooksLikePrompt(buffer)

\* ---------------------------------------------------------------------- C31
\* C31, as stated: every timeout of an Executing expect is followed by one
\* recovery probe, also when nothing has been captured for the command.
C31_ProbeOnEveryTimeout ==
  (op = "cmd" /\ "e236" \in tmo) => keys.probe = 1

\* C31, amended: a timeout of an Executing expect is followed by one probe
\* when something has been captured and by none when nothing has; a probe
\* that finds a prompt lets the run succeed, a probe that finds none and a
\* timeout without probe end in TimeoutError; there is no second probe.
C31_ProbeWhenCaptured ==
  op = "cmd" =>
    /\ keys.probe <= 1
    /\ keys.probe = 1 => "e236" \in tmo
    /\ "e236" \in tmo =>
         /\ keys.probe = 1 <=> output_buffer # <<>>
         /\ keys.probe = 0 => (pc = "failed" /\ err.kind = "TimeoutError")
         /\ "e282" \in tmo => (pc = "failed" /\ err.kind = "TimeoutError")
         /\ (keys.probe = 1 /\ "e282" \notin tmo /\ Finished /\ NotCutOff) =>
              pc = "done"

\* a run that timed out in Executing, probed, found the prompt and returned
C31_Witness ==
  /\ op = "cmd" /\ pc = "done"
  /\ "e236" \in tmo /\ keys.probe = 1 /\ result # <<>>

\* ---------------------------------------------------------------------- C32
ConfirmToks == {"YESNO", "CONFIRM"}

CountIn(toks, types) == Cardinality({i \in 1..Len(toks) : toks[i].t \in types})

\* the markers of these types that an expect of the Executing loop has
\* matched: those the device emitted that are no longer waiting to be read
\* or matched
Matched(types) ==
  CountIn(emitted, types) - CountIn(wire, types) - CountIn(buffer, types)

\* C32: from the command line to the end of Executing the driver has sent
\* one space per pager marker matched, one yes per confirmation matched, at
\* most one recovery carriage return and nothing else (what it sends next
\* is the escape of Detaching), and the loop went round once for each marker.
C32_OnlyKeysInExecuting ==
  op = "cmd" =>
    /\ ~HasEv(S("command")) => keys = [space |-> 0, yes |-> 0, probe |-> 0]
    /\ keys.probe <= 1
    /\ keys.space + keys.yes = iteration
    /\ pc = "e236" =>
         /\ keys.space = Matched(PagerToks)
         /\ keys.yes = Matched(ConfirmToks)
         /\ keys.probe = 0
    /\ \A j \in At(S("command")) : \A i \in (j + 1)..Len(trace) :
         trace[i].e = "send" => trace[i].x \in {"ESCAPE", "exit"}

\* the loop has continued a page and is waiting for what comes next
C32_Witness ==
  /\ op = "cmd" /\ pc = "e236"
  /\ keys.space + keys.yes = 1 /\ iteration = 1 /\ buffer = <<>> /\ wire # <<>>

\* ---------------------------------------------------------------------- C33
IsCfgSend(e) == e.e = "send" /\ e.x = "cfgcmd"

\* the batch commands that went to the device, in the order they went
CfgSent == SelectSeq(trace, IsCfgSend)

\* what the device has emitted that no expect has consumed yet
Unread == buffer \o wire

\* what the device answers to the k-th kind of batch command: its prompt,
\* after an echo or not, or nothing at all
CfgReplies(k) ==
  {<<>>} \cup {e \o ModePrompt(SubMode(k)) : e \in {<<>>, <<Echo(k)>>}}

\* C33: the batch commands go out in list order, each once; while command
\* i is awaited, the last thing matched is the configuration prompt that
\* answered the line before it (the prompt of command i-1 for i > 1), one
\* entry was recorded per earlier command and all that is unread is the
\* answer to command i; after a failure no later command has been sent and
\* none is named in what the caller receives.
C33_InOrderAfterPrompt ==
  op = "cfg" =>
    /\ CfgSent = [i \in 1..cmdIdx |-> SendEv(CmdLine(commands[i]))]
    /\ pc = "c528" =>
         /\ Unread \in CfgReplies(commands[cmdIdx])
         /\ after = emitted[Len(emitted) - Len(Unread)]
         /\ after.t \in {"CPROMPT", "SPROMPT"}
         /\ cmdIdx > 1 => <<after>> = ModePrompt(SubMode(commands[cmdIdx - 1]))
         /\ Len(all_output) = cmdIdx
    /\ pc = "failed" =>
         /\ result = <<>>
         /\ \A i \in (cmdIdx + 1)..Len(commands) : i \notin Named

\* the first of two commands got no prompt: the second was never sent
C33_Witness ==
  /\ op = "cfg" /\ pc = "failed" /\ err.at = "c528"
  /\ Len(commands) = 2 /\ cmdIdx = 1 /\ Len(CfgSent) = 1

\* ---------------------------------------------------------------------- C34
\* C34: in a single-command run and in a batch, "enable" goes out exactly
\* when the stabilized prompt ends with ">" and an enable secret was
\* supplied, never without a secret, and the secret follows a password
\* prompt matched after "enable".
C34_EnableIffSecret ==
  /\ HasEv(S("enable")) => device_enable_pass
  /\ pc \in {"e208", "c508"} => (EndsWith(after, 62) /\ device_enable_pass)
  /\ (pc \in {"e216", "c516"} /\ ~HasEv(S("enable"))) =>
        ~(EndsWith(after, 62) /\ device_enable_pass)
  /\ \A k \in At(S("device_enable_pass")) :
        k > 2 /\ trace[k - 1] = M(Tok("PW")) /\ trace[k - 2] = S("enable")

\* ---------------------------------------------------------------------- C35
\* The two drivers from their first expect for the device prompt (line 139,
\* line 465) to the first line of their own work, as functions of what the
\* transport delivers: the k-th expect of a run finds the k-th piece of the
\* script added to what was read and not matched, and nothing once the
\* script is over.  Before that expect the two functions are the same text.
MaxScript == 4

PreludeObs == {"NONE", "USER", "PW", "UPROMPT", "PPROMPT", "BPROMPT"}

Scripts == UNION {[1..n -> PreludeObs] : n \in 0..MaxScript}

Arrive(buf, o) == IF o = "NONE" THEN buf ELSE Append(buf, Tok(o))

Goes(p, att, ls) == [pc |-> p, att |-> att, lines |-> ls, out |-> "go"]
Ends(out) == [pc |-> "end", att |-> 0, lines |-> <<>>, out |-> out]

\* lines 197-216
CmdPrompt(tok, c) ==
  IF tok = TIMEOUT THEN Ends("RuntimeError")
  ELSE IF c.enable /\ ~EndsWith(tok, 35) THEN Goes("e208", 0, <<"enable">>)
  ELSE Goes("e216", 0, <<"CR">>)

\* lines 501-513
CfgPrompt(tok, c) ==
  IF EndsWith(tok, 62) THEN Goes("c508", 0, <<"enable">>) ELSE Ends("proceed")

\* one expect of either driver and what follows it up to the next expect
PreludeStep(p, att, buf, c) ==
  LET pats == ExpectPats(p)
      hit == MatchPos(pats, buf) > 0
      i == MatchIdx(pats, buf)
      tok == buf[MatchPos(pats, buf)]
  IN CASE p \in {"e139", "c465"} ->
            IF ~hit THEN Goes(IF p = "e139" THEN "e159" ELSE "c479", 0, <<"CR">>)
            ELSE IF i \in {1, 2}
            THEN (IF c.user THEN Goes(IF p = "e139" THEN "e184" ELSE "c491", 0, <<"device_user">>)
                  ELSE Ends("RuntimeError"))
            ELSE IF i = 3
            THEN (IF c.pass THEN Goes(IF p = "e139" THEN "e195" ELSE "c499", 0, <<"device_pass">>)
                  ELSE Ends("RuntimeError"))
            ELSE IF p = "e139" THEN CmdPrompt(tok, c) ELSE CfgPrompt(tok, c)
       [] p = "e159" ->
            IF hit THEN CmdPrompt(tok, c)
            ELSE IF att + 1 < RetryAttempts THEN Goes(p, att + 1, <<"CR">>)
            ELSE IF LooksLikePrompt(buf) THEN CmdPrompt(TIMEOUT, c)
            ELSE Ends("RuntimeError")
       [] p = "c479" ->
            IF hit THEN CfgPrompt(tok, c)
            ELSE IF att + 1 < RetryAttempts THEN Goes(p, att + 1, <<"CR">>)
            ELSE Ends("RuntimeError")
       [] ~hit -> Ends("TimeoutError")
       [] p \in {"e184", "c491"} ->
            IF c.pass THEN Goes(IF p = "e184" THEN "e186" ELSE "c493", 0, <<"device_pass">>)
            ELSE Ends("RuntimeError")
       [] p \in {"e186", "e195"} -> CmdPrompt(tok, c)
       [] p \in {"c493", "c499"} -> CfgPrompt(tok, c)
       [] p = "e208" ->
            IF i = 1 THEN Goes("e211", 0, <<"device_enable_pass">>)
            ELSE Goes("e216", 0, <<"CR">>)
       [] p = "e211" -> Goes("e216", 0, <<"CR">>)
       [] p = "c508" ->
            IF i = 1 /\ c.enable THEN Goes("c511", 0, <<"device_enable_pass">>)
            ELSE Ends("proceed")
       [] p \in {"e216", "c511"} -> Ends("proceed")

RECURSIVE Prelude(_, _, _, _, _, _)
Prelude(p, att, buf, script, c, sent) ==
  LET b == Arrive(buf, IF script = <<>> THEN "NONE" ELSE Head(script))
      r == PreludeStep(p, att, b, c)
      m == MatchPos(ExpectPats(p), b)
  IN IF r.out # "go" THEN [lines |-> sent, out |-> r.out]
     ELSE Prelude(r.pc, r.att, SubSeq(b, m + 1, Len(b)),
                  IF script = <<>> THEN <<>> ELSE Tail(script), c, sent \o r.lines)

InitPrelude ==
  /\ Idle
  /\ given \in {[f |-> "prelude", script |-> sc, user |-> u, pass |-> pw, enable |-> en] :
                  sc \in Scripts, u \in BOOLEAN, pw \in BOOLEAN, en \in BOOLEAN}
  /\ got = <<>>

\* the single-command driver, then the batch driver, on the same script
PreludeCall ==
  /\ got = <<>>
  /\ got' = <<Prelude("e139", 0, <<>>, given.script, given, <<>>),
               Prelude("c465", 0, <<>>, given.script, given, <<>>)>>
  /\ UNCHANGED <<given, run, pool, tools>>

SpecPrelude == InitPrelude /\ [][PreludeCall]_vars

\* C35: on the same transport behaviour and with the same credentials the
\* two drivers send the same lines and end the same way (both proceed, or
\* both fail with the same kind of error).
C35_SamePrelude == got # <<>> => got[1] = got[2]

\* ---------------------------------------------------------------------- C36
\* the lines of a raw text as the normalizer splits them
RawLines(output) == SplitLines(ReplaceCR(ansi_escape_sub(output)), <<>>)

\* the lines that follow the first non-blank line
RECURSIVE AfterFirstText(_)
AfterFirstText(lines) ==
  IF lines = <<>> \/ Strip(Head(lines)) # <<>> THEN Tail(lines)
  ELSE AfterFirstText(Tail(lines))

\* a text without carriage returns, blank lines at either end or blanks at
\* the end of a line
Tidy(text) ==
  /\ \A i \in 1..Len(text) : text[i] # CR
  /\ Strip(text) = text
  /\ \A l \in {SplitLines(text, <<>>)[i] : i \in 1..Len(SplitLines(text, <<>>))} :
        RStrip(l) = l

\* C36: when the first non-blank line of the raw text holds the command,
\* that line is not in the result, whatever blank lines precede it: the
\* result is what cleaning the lines after it gives; and every result is
\* tidy.
C36_EchoLineRemoved ==
  got # <<>> =>
    /\ Tidy(got[1])
    /\ LET lines == RawLines(given.output)
           rest == PopBlankTail(PopBlankHead(AfterFirstText(lines)))
       IN Contains(FirstLine(JoinLines(PopBlankHead(lines))), given.command) =>
            got[1] = Strip(JoinLines([i \in 1..Len(rest) |-> RStrip(rest[i])]))

\* ---------------------------------------------------------------------- C37
\* the pieces of device output in the chunk list, in the order they are joined
Chunks == Flatten(output_buffer)

\* C37: after a timeout in the Executing loop and a recovery probe that
\* found a prompt, no piece of the device's output (the echo, a segment of
\* the output) is in the chunk list twice, so none is twice in the
\* transcript made from it.
C37_OnceAfterRecovery ==
  (op = "cmd" /\ keys.probe = 1 /\ pc \in {"e310", "done"}) =>
     \A i, j \in 1..Len(Chunks) :
        (i # j /\ Chunks[i].t \in TextToks) => Chunks[i] # Chunks[j]

\* ---------------------------------------------------------------------- C38
\* C38: while the batch driver waits for the answer to "configure
\* terminal", the last prompt it had matched before sending it is the
\* privileged prompt: not a password request, not the user prompt.
C38_ConfigureFromPrivileged ==
  (op = "cfg" /\ pc = "c516") => after = Tok("PPROMPT")

\* ---------------------------------------------------------------------- C39
\* the batch driver has matched the configuration prompt after "configure
\* terminal": line 517 has recorded it
EnteredConfig == all_output # <<>> /\ all_output[1] = EnteredText

\* C39: when a batch run that had entered configuration mode has closed
\* the transport, by returning or by failing, "end" was sent before.
C39_ExitBeforeClose ==
  (op = "cfg" /\ EnteredConfig /\ child = "closed") => HasEv(S("end"))

\* ---------------------------------------------------------------------- C40
\* A specification for tools/auth.py by itself: the callers initialize the
\* client one after the other, each call succeeding or failing, and each
\* call is recorded with the client and the stored credentials before it
\* and what get_client and require_client return after it.
MaxInits == 3

InitAuth == Idle /\ given = NoArgs /\ got = <<>>

AuthCall(c) ==
  /\ Len(got) < MaxInits
  /\ \E outcome \in InitOutcomes :
       /\ initialize_client(c, outcome)
       /\ got' = Append(got,
                   [caller |-> c,
                    status |-> IF outcome = "success" THEN "success" ELSE "error",
                    client_before |-> cml_client,
                    environ_before |-> environ,
                    get_client |-> IF outcome = "construct_raises" THEN cml_client ELSE c,
                    environ_after |-> IF outcome = "success" THEN c ELSE environ])
  /\ UNCHANGED <<run, pool, given, issued, inv>>

NextAuth == \E c \in Callers : AuthCall(c)

SpecAuth == InitAuth /\ [][NextAuth]_vars

====
